---- MODULE Spec2Model ----
(***************************************************************************)
(* Job watcher: the cross-run dedupe stores and the orchestration around   *)
(* them, as state machines.                                                *)
(*                                                                         *)
(*   builtin_job_bot.py        main, SQLite store with company cooldown,   *)
(*                             flat state file           (SpecBot,         *)
(*                             SpecStore: the store functions driven with  *)
(*                             arbitrary Job lists)                        *)
(*   hiring_cafe_job_watcher.py main with the JSON state file (SpecCafe)   *)
(*   job_watcher.py            main.consider over the polled sources       *)
(*                                                        (SpecWatcher)    *)
(*                                                                         *)
(* Python strings are TLA+ strings; the string functions below work        *)
(* character by character.  Time is counted in ticks, SubSec ticks to the  *)
(* second, so that isoformat(timespec="seconds") really truncates.         *)
(***************************************************************************)
EXTENDS Integers, Sequences, FiniteSets, TLC

VARIABLES
    now,          \* datetime.utcnow(), in ticks
    squelchDays,  \* SQUELCH_COMPANY_DAYS after the env override
    stateFile,    \* STATE_FILE of builtin_job_bot: "" selects SQLite
    db,           \* the committed content of builtin_jobs.sqlite
    file,         \* the lines of the flat state file
    con,          \* the open connection's view (committed + pending writes)
    pc,           \* position of builtin_job_bot.main
    jobs,         \* main: jobs
    fresh_jobs,   \* main: fresh_jobs
    seen,         \* main: seen (flat file mode)
    markNow,      \* db_mark_sent: now
    mi,           \* db_mark_sent: index of the job being written
    mstmt,        \* db_mark_sent: next statement for that job (1 or 2)
    runs,         \* number of runs started
    notified,     \* history: postings in successfully sent emails
    marked,       \* history: urls whose mark operation completed
    markedAt,     \* history: per company, the instant of its last completed mark
    markBatch,    \* history: the batch handed to the mark step of this run
    deferred      \* history: postings rejected by the company cooldown alone

botVars == <<now, squelchDays, stateFile, db, file, con, pc, jobs, fresh_jobs,
             seen, markNow, mi, mstmt, runs, notified, marked, markedAt,
             markBatch, deferred>>

VARIABLES
    cafeFile,     \* hiring_cafe_job_watcher: the content of state.json
    cpc,          \* position of hiring_cafe_job_watcher.main
    cseen,        \* main: seen
    current_ids,  \* main: current_ids
    all_new_jobs, \* main: all_new_jobs
    cruns,        \* number of runs started
    cnotified,    \* history: ids in successfully sent emails, with the run
    crejected     \* history: ids this run's "not in seen" test rejected

cafeVars == <<cafeFile, cpc, cseen, current_ids, all_new_jobs, cruns,
              cnotified, crejected>>

VARIABLES
    wStateFile,   \* job_watcher: STATE_FILE ("" when unset)
    wDryRun,      \* job_watcher: DRY_RUN of the current run
    wdb,          \* the committed rows of table seen in seen_jobs.sqlite3
    wconn,        \* main: conn, the connection's view (committed + pending)
    wfile,        \* the content of the state file
    wpc,          \* position of job_watcher.main
    wsrc,         \* index of the source being polled
    wfeed,        \* postings the current fetcher has still to yield
    state_ids,    \* main: state_ids ({} stands for None when STATE_FILE is unset)
    new_hits,     \* main: new_hits
    wruns,        \* number of runs started
    wEmailed,     \* history: keys in successfully sent emails
    wMails,       \* history: number of emails send_email has sent
    wPrev,        \* history: the persisted state when the run started
    wOutcome,     \* history: how the last run ended
    wFailed,      \* history: a store statement failed in this run
    wAfter,       \* history: what the run did after a store failure
    wconf,        \* main: conf, what load_conf returned
    wpage,        \* fetch_ashby: page
    wConsidered,  \* history: the postings consider() was called with in this run
    wRaised       \* history: the sources whose fetcher raised in this run

VARIABLES
    fconf,        \* passes_all_filters: conf
    fjob,         \* passes_all_filters: job
    fmeta,        \* what the description of fjob was written from
    fout,         \* what passes_all_filters and its stages did with them
    fagain        \* what a second call with the same arguments did

filterVars == <<fconf, fjob, fmeta, fout, fagain>>

VARIABLES
    rdays,        \* builtin_job_bot: the global POSTED_WITHIN_DAYS
    rfound,       \* the postings handed to looks_recent, sort_key, run_searches
    rout          \* what the three functions returned for them

recencyVars == <<rdays, rfound, rout>>

VARIABLES
    pconf,        \* job_watcher.main: conf, for the sort of new_hits
    phits,        \* main: new_hits in front of the sort
    pout          \* main: new_hits behind the sort

rankVars == <<pconf, phits, pout>>

VARIABLES
    mconf,        \* job_watcher.main in both dedupe modes: conf
    mprior,       \* the postings seen before the two runs
    mfeedF,       \* STATE_FILE run: postings the fetchers have still to yield
    mfeedS,       \* SQLite run: postings the fetchers have still to yield
    mstate,       \* STATE_FILE run: state_ids
    mfile,        \* STATE_FILE run: the state file
    mrows,        \* SQLite run: the committed rows of table seen
    mhitsF,       \* STATE_FILE run: new_hits
    mhitsS,       \* SQLite run: new_hits
    mdone         \* STATE_FILE run: main has passed save_state_ids

modeVars == <<mconf, mprior, mfeedF, mfeedS, mstate, mfile, mrows, mhitsF,
              mhitsS, mdone>>

\* the variables of the functions applied on their own, after filterVars
\* and recencyVars
callVars == <<rankVars, modeVars>>

watcherVars == <<wStateFile, wDryRun, wdb, wconn, wfile, wpc, wsrc, wfeed,
                 state_ids, new_hits, wruns, wEmailed, wMails, wPrev, wOutcome,
                 wFailed, wAfter, wconf, wpage, wConsidered, wRaised>>

-----------------------------------------------------------------------------
(* Bounds of the model *)

SubSec == 2        \* clock ticks per second
MaxFound == 2      \* postings handed to one run
MaxRuns == 2       \* runs in one behaviour
MaxPages == 2      \* pages one fetch_ashby call requests

-----------------------------------------------------------------------------
(* Python string functions *)

Uppers == "ABCDEFGHIJKLMNOPQRSTUVWXYZ"
Lowers == "abcdefghijklmnopqrstuvwxyz"
\* the characters in use, in code point order
Alphabet == " #()+-./0123456789:" \o Uppers \o "_" \o Lowers

CharAt(s, i) == SubSeq(s, i, i)

Ord(ch) == CHOOSE i \in 1..Len(Alphabet) : CharAt(Alphabet, i) = ch

LowerChar(ch) ==
    IF \E i \in 1..Len(Uppers) : CharAt(Uppers, i) = ch
    THEN CharAt(Lowers, CHOOSE i \in 1..Len(Uppers) : CharAt(Uppers, i) = ch)
    ELSE ch

RECURSIVE lower(_)
lower(s) == IF Len(s) = 0 THEN "" ELSE LowerChar(Head(s)) \o lower(Tail(s))

RECURSIVE lstrip(_)
lstrip(s) == IF Len(s) > 0 /\ Head(s) = " " THEN lstrip(Tail(s)) ELSE s

RECURSIVE rstrip(_)
rstrip(s) ==
    IF Len(s) > 0 /\ CharAt(s, Len(s)) = " "
    THEN rstrip(SubSeq(s, 1, Len(s) - 1))
    ELSE s

strip(s) == rstrip(lstrip(s))

\* sub in s
Contains(sub, s) ==
    \E i \in 1..(Len(s) - Len(sub) + 1) : SubSeq(s, i, i + Len(sub) - 1) = sub

\* s < t for Python str
RECURSIVE StrLess(_, _)
StrLess(s, t) ==
    IF Len(t) = 0 THEN FALSE
    ELSE IF Len(s) = 0 THEN TRUE
    ELSE IF Head(s) = Head(t) THEN StrLess(Tail(s), Tail(t))
    ELSE Ord(Head(s)) < Ord(Head(t))

\* sorted(S) for a set of strings
RECURSIVE sorted(_)
sorted(S) ==
    IF S = {} THEN <<>>
    ELSE LET m == CHOOSE x \in S : \A y \in S \ {x} : StrLess(x, y)
         IN  <<m>> \o sorted(S \ {m})

Range(f) == {f[i] : i \in DOMAIN f}

-----------------------------------------------------------------------------
(* Clock and timestamps *)

SecondsPerDay == 86400
SQUELCH_COMPANY_DAYS == 30
ALLOW_UNKNOWN_COMPANY == TRUE

DayTicks == SecondsPerDay * SubSec

\* the days at which the clock is observed
ClockDays == {0, 10, SQUELCH_COMPANY_DAYS, SQUELCH_COMPANY_DAYS + 1}
\* ... and the instants of the first second of each of them
TimePoints == {d * DayTicks + o : d \in ClockDays, o \in 0..(SubSec - 1)}

\* SQUELCH_COMPANY_DAYS = int(os.getenv("SQUELCH_COMPANY_DAYS", 30))
SquelchChoices == {0, SQUELCH_COMPANY_DAYS}

\* datetime.isoformat(timespec="seconds"): the stored text names a whole second
isoformat_seconds(t) == t \div SubSec
\* datetime.fromisoformat of such a text
fromisoformat(s) == s * SubSec
\* timedelta(days=days)
timedelta_days(days) == days * DayTicks

-----------------------------------------------------------------------------
(* builtin_job_bot.py: the Job record and the SQLite dedupe store *)

Job(t, c, p, u) == [title |-> t, company |-> c, posted |-> p, url |-> u]

\* Python's None, kept apart from every str in use
None == "<None>"

\* d.get(k, default) for a dict d
Get(d, k, default) == IF k \in DOMAIN d THEN d[k] ELSE default

\* the empty dict {}
EmptyDict == <<>>

\* a or b, for str
OrStr(a, b) == IF a = "" \/ a = None THEN b ELSE a

norm_company(name) == lower(strip(OrStr(name, "")))

EmptyDb == [sent_jobs |-> {}, sent_companies |-> {}]
NoCon == [closed |-> TRUE]

\* sqlite3.connect + CREATE TABLE IF NOT EXISTS + commit: the connection
\* sees the committed content
db_init(d) == d

\* mutant: the SELECT never finds a row
db_already_sent_url_never(c, url) == FALSE

db_already_sent_url(c, url) == \E r \in c.sent_jobs : r.url = url

\* mutant: <= in place of < in the comparison with the window
db_company_recently_sent_le(c, company_norm_val, days, utcnow) ==
    IF company_norm_val = "" THEN FALSE
    ELSE IF ~ \E r \in c.sent_companies : r.company_norm = company_norm_val
    THEN FALSE
    ELSE LET row == CHOOSE r \in c.sent_companies :
                        r.company_norm = company_norm_val
             last == fromisoformat(row.last_sent_at)
         IN  utcnow - last <= timedelta_days(days)

\* mutant: a company with a sent_companies row is squelched for good
db_company_recently_sent_ever(c, company_norm_val, days, utcnow) ==
    IF company_norm_val = "" THEN FALSE
    ELSE \E r \in c.sent_companies : r.company_norm = company_norm_val

db_company_recently_sent(c, company_norm_val, days, utcnow) ==
    IF company_norm_val = "" THEN FALSE
    ELSE IF ~ \E r \in c.sent_companies : r.company_norm = company_norm_val
    THEN FALSE
    ELSE LET row == CHOOSE r \in c.sent_companies :
                        r.company_norm = company_norm_val
             last == fromisoformat(row.last_sent_at)
         IN  utcnow - last < timedelta_days(days)

\* the body of the loop of filter_new_jobs_sqlite: TRUE when j is appended
is_new_sqlite(c, j, days, utcnow) ==
    IF db_already_sent_url(c, j.url) THEN FALSE
    ELSE IF norm_company(j.company) = "" /\ ALLOW_UNKNOWN_COMPANY THEN TRUE
    ELSE IF db_company_recently_sent(c, norm_company(j.company), days, utcnow)
    THEN FALSE
    ELSE TRUE

filter_new_jobs_sqlite(c, js, days, utcnow) ==
    SelectSeq(js, LAMBDA j : is_new_sqlite(c, j, days, utcnow))

\* mutant: INSERT OR REPLACE INTO sent_jobs
InsertSentJob_replace(c, j, nowtxt) ==
    [c EXCEPT !.sent_jobs = {r \in @ : r.url # j.url} \cup
        {[url |-> j.url,
          company_norm |-> norm_company(j.company),
          company_raw |-> OrStr(j.company, ""),
          title |-> OrStr(j.title, ""),
          sent_at |-> nowtxt]}]

\* INSERT OR IGNORE INTO sent_jobs ... VALUES (?,?,?,?,?)
InsertSentJob(c, j, nowtxt) ==
    IF \E r \in c.sent_jobs : r.url = j.url THEN c
    ELSE [c EXCEPT !.sent_jobs = @ \cup
            {[url |-> j.url,
              company_norm |-> norm_company(j.company),
              company_raw |-> OrStr(j.company, ""),
              title |-> OrStr(j.title, ""),
              sent_at |-> nowtxt]}]

\* INSERT INTO sent_companies ... ON CONFLICT(company_norm) DO UPDATE
UpsertCompany(c, c_norm, nowtxt) ==
    [c EXCEPT !.sent_companies =
        {r \in @ : r.company_norm # c_norm} \cup
        {[company_norm |-> c_norm, last_sent_at |-> nowtxt]}]

\* mutant: the cooldown upsert is skipped
MarkUpdatesCompany_never(j) == FALSE

\* mutant: the guard "if c_norm" is missing
MarkUpdatesCompany_always(j) == TRUE

\* db_mark_sent: whether the loop body runs the second statement for j
MarkUpdatesCompany(j) == norm_company(j.company) # ""

-----------------------------------------------------------------------------
(* builtin_job_bot.py: the flat state file *)

\* {line.strip() for line in f if line.strip()}; "" (no STATE_FILE) and a
\* missing file both give the empty set
load_seen_file(sf, lines) ==
    IF sf = "" THEN {}
    ELSE {strip(lines[i]) : i \in {k \in DOMAIN lines : strip(lines[k]) # ""}}

\* mutant: the file is opened with "a", the lines are appended
save_seen_file_append(sf, lines, s) ==
    IF sf = "" THEN lines ELSE lines \o sorted(s)

\* for url in sorted(seen): f.write(url + "\n"); each element is one line
save_seen_file(sf, lines, s) == IF sf = "" THEN lines ELSE sorted(s)

-----------------------------------------------------------------------------
(* builtin_job_bot.py: posted-text heuristics, hydration, run_searches *)

POSTED_WITHIN_DAYS == 14
MAX_PER_SEARCH == 100
MAX_TOTAL == 300

Digits == "0123456789"
IsDigit(ch) == Len(ch) = 1 /\ Contains(ch, Digits)

\* int(s) for a string of digits
RECURSIVE int(_)
int(s) ==
    IF Len(s) = 0 THEN 0
    ELSE int(SubSeq(s, 1, Len(s) - 1)) * 10
         + (Ord(CharAt(s, Len(s))) - Ord("0"))

\* first index >= i that holds no digit (\d+ is greedy)
RECURSIVE DigitsEnd(_, _)
DigitsEnd(s, i) ==
    IF i <= Len(s) /\ IsDigit(CharAt(s, i)) THEN DigitsEnd(s, i + 1) ELSE i

\* first index >= i that holds no white space (\s+ is greedy)
RECURSIVE SpacesEnd(_, _)
SpacesEnd(s, i) ==
    IF i <= Len(s) /\ CharAt(s, i) = " " THEN SpacesEnd(s, i + 1) ELSE i

\* r"(\d+)\s+<word>" matches at index i of s
NumWordMatchAt(s, word, i) ==
    /\ IsDigit(CharAt(s, i))
    /\ LET e == DigitsEnd(s, i)
           f == SpacesEnd(s, e)
       IN  /\ f > e
           /\ f + Len(word) - 1 <= Len(s)
           /\ SubSeq(s, f, f + Len(word) - 1) = word

\* re.search(r"(\d+)\s+<word>", s): int(m.group(1)), or -1 when m is None
NumWordSearch(s, word) ==
    LET starts == {i \in 1..Len(s) : NumWordMatchAt(s, word, i)}
    IN  IF starts = {} THEN -1
        ELSE LET i == CHOOSE k \in starts : \A m \in starts : k <= m
             IN  int(SubSeq(s, i, DigitsEnd(s, i) - 1))

looks_recent_lt(within_days, posted_text) ==
    IF within_days <= 0 THEN TRUE
    ELSE LET t == lower(strip(OrStr(posted_text, "")))
         IN  IF t = "" \/ Contains("today", t) \/ Contains("hour", t) THEN TRUE
             ELSE IF NumWordSearch(t, "day") # -1
             THEN NumWordSearch(t, "day") < within_days
             ELSE IF NumWordSearch(t, "week") # -1
             THEN NumWordSearch(t, "week") * 7 < within_days
             ELSE TRUE

\* looks_recent(posted_text), within_days being the value the global
\* POSTED_WITHIN_DAYS has when it is called
looks_recent(within_days, posted_text) ==
    IF within_days <= 0 THEN TRUE
    ELSE LET t == lower(strip(OrStr(posted_text, "")))
         IN  IF t = "" \/ Contains("today", t) \/ Contains("hour", t) THEN TRUE
             ELSE IF NumWordSearch(t, "day") # -1
             THEN NumWordSearch(t, "day") <= within_days
             ELSE IF NumWordSearch(t, "week") # -1
             THEN NumWordSearch(t, "week") * 7 <= within_days
             ELSE TRUE

sort_key_raw_title(j) ==
    LET p == lower(OrStr(j.posted, ""))
        score ==
            IF Contains("hour", p) \/ Contains("today", p) THEN 0
            ELSE IF Contains("day", p)
            THEN (IF NumWordSearch(p, "day") # -1
                  THEN NumWordSearch(p, "day") ELSE 3)
            ELSE IF Contains("week", p)
            THEN 7 * (IF NumWordSearch(p, "week") # -1
                      THEN NumWordSearch(p, "week") ELSE 1)
            ELSE 999
    IN  <<score, OrStr(j.title, "")>>

sort_key(j) ==
    LET p == lower(OrStr(j.posted, ""))
        score ==
            IF Contains("hour", p) \/ Contains("today", p) THEN 0
            ELSE IF Contains("day", p)
            THEN (IF NumWordSearch(p, "day") # -1
                  THEN NumWordSearch(p, "day") ELSE 3)
            ELSE IF Contains("week", p)
            THEN 7 * (IF NumWordSearch(p, "week") # -1
                      THEN NumWordSearch(p, "week") ELSE 1)
            ELSE 999
    IN  <<score, lower(OrStr(j.title, ""))>>

\* a < b for the (int, str) tuples of sort_key
KeyLess(a, b) == a[1] < b[1] \/ (a[1] = b[1] /\ StrLess(a[2], b[2]))

\* sorted(..., key=sort_key) is stable: x goes behind every element whose
\* key is not greater than its own
RECURSIVE InsertByKey(_, _)
InsertByKey(sq, x) ==
    IF sq = <<>> THEN <<x>>
    ELSE IF KeyLess(sort_key(x), sort_key(Head(sq))) THEN <<x>> \o sq
    ELSE <<Head(sq)>> \o InsertByKey(Tail(sq), x)

RECURSIVE SortedByKey(_)
SortedByKey(sq) ==
    IF sq = <<>> THEN <<>>
    ELSE InsertByKey(SortedByKey(SubSeq(sq, 1, Len(sq) - 1)), sq[Len(sq)])

\* One element of `found` with what its detail page shows: link is the
\* anchor text kept by parse_jobs_on_page, ok is FALSE when the page raises.
HydrateOne(d) ==
    IF d.ok
    THEN Job(OrStr(d.title, OrStr(d.link, "(No title)")),
             OrStr(d.company, "(Unknown company)"), d.posted, d.url)
    ELSE Job(OrStr(d.link, "(No title)"), OrStr("", "(Unknown company)"),
             "", d.url)

hydrate_from_detail(found) ==
    LET cut == SubSeq(found, 1, IF Len(found) < MAX_PER_SEARCH
                                THEN Len(found) ELSE MAX_PER_SEARCH)
        Rec[i \in 0..Len(cut)] ==
            IF i = 0 THEN <<>>
            ELSE IF cut[i].ok /\ ~ looks_recent(POSTED_WITHIN_DAYS, cut[i].posted)
            THEN Rec[i - 1]
            ELSE Append(Rec[i - 1], HydrateOne(cut[i]))
    IN  Rec[Len(cut)]

\* all_jobs.setdefault(j.url, j) over the hydrated postings, up to MAX_TOTAL
SetDefaultAll(hydrated) ==
    LET Rec[i \in 0..Len(hydrated)] ==
            IF i = 0 THEN <<>>
            ELSE IF Len(Rec[i - 1]) >= MAX_TOTAL THEN Rec[i - 1]
            ELSE IF \E k \in DOMAIN Rec[i - 1] :
                        Rec[i - 1][k].url = hydrated[i].url
            THEN Rec[i - 1]
            ELSE Append(Rec[i - 1], hydrated[i])
    IN  Rec[Len(hydrated)]

run_searches(found) == SortedByKey(SetDefaultAll(hydrate_from_detail(found)))

-----------------------------------------------------------------------------
(* builtin_job_bot.py: main, one action per step between two effects *)

BotUrls == {"https://builtin.com/job/1001", "https://builtin.com/job/1002"}

\* what parse_jobs_on_page and the detail pages can hand to one run
DetailInputs ==
    [url : BotUrls, link : {""}, ok : BOOLEAN, title : {"Lead"},
     company : {"", "Acme"}, posted : {"2 days ago", "3 weeks ago"}]

FoundInputs ==
    UNION {[1..n -> DetailInputs] : n \in 0..MaxFound}

\* Job lists for the store functions called directly
StoreUrls == {"u1", "u2"}
StoreJobs ==
    {Job("Dev", c, "", u) : c \in {"", "Acme", " acme "}, u \in StoreUrls}
StoreInputs ==
    UNION {[1..n -> StoreJobs] : n \in 0..MaxFound}

Urls(js) == {js[i].url : i \in DOMAIN js}

\* the run is over: main returned or the process exited
EndRun ==
    /\ pc' = "idle"
    /\ jobs' = <<>>
    /\ fresh_jobs' = <<>>
    /\ seen' = {}
    /\ con' = NoCon
    /\ markNow' = 0
    /\ mi' = 0
    /\ mstmt' = 0
    /\ markBatch' = <<>>

\* jobs = run_searches(); if not jobs: return;
\* con = db_init(DB_PATH); fresh_jobs = filter_new_jobs_sqlite(con, jobs)
StartSqlite(js) ==
    /\ pc = "idle"
    /\ stateFile = ""
    /\ runs < MaxRuns
    /\ runs' = runs + 1
    /\ IF js = <<>>
       THEN EndRun
       ELSE /\ pc' = "send"
            /\ jobs' = js
            /\ con' = db_init(db)
            /\ fresh_jobs' = filter_new_jobs_sqlite(con', js, squelchDays, now)
            /\ UNCHANGED <<seen, markNow, mi, mstmt, markBatch>>
    /\ deferred' = deferred \cup
           {js[i] : i \in {k \in DOMAIN js :
                /\ ~ db_already_sent_url(db_init(db), js[k].url)
                /\ ~ is_new_sqlite(db_init(db), js[k], squelchDays, now)}}
    /\ UNCHANGED <<now, squelchDays, stateFile, db, file, notified, marked, markedAt>>
    /\ UNCHANGED <<cafeVars, watcherVars, filterVars, recencyVars, callVars>>

\* jobs = run_searches(); if not jobs: return;
\* seen = load_seen_file(); fresh_jobs = [j for j in jobs if j.url not in seen]
StartFile(js) ==
    /\ pc = "idle"
    /\ stateFile # ""
    /\ runs < MaxRuns
    /\ runs' = runs + 1
    /\ IF js = <<>>
       THEN EndRun
       ELSE /\ pc' = "send"
            /\ jobs' = js
            /\ seen' = load_seen_file(stateFile, file)
            /\ fresh_jobs' = SelectSeq(js, LAMBDA j : j.url \notin seen')
            /\ UNCHANGED <<con, markNow, mi, mstmt, markBatch>>
    /\ UNCHANGED <<now, squelchDays, stateFile, db, file, notified, marked, markedAt>>
    /\ UNCHANGED deferred
    /\ UNCHANGED <<cafeVars, watcherVars, filterVars, recencyVars, callVars>>

\* the lists run_searches returns for these inputs
RunSearchResults == {run_searches(found) : found \in FoundInputs}

RunSqlite == \E js \in RunSearchResults : StartSqlite(js)

RunFile == \E js \in RunSearchResults : StartFile(js)

\* the store functions applied to a Job list given by the caller
StoreCall == \E js \in StoreInputs : StartSqlite(js)

\* if not fresh_jobs: return
NothingNew ==
    /\ pc = "send"
    /\ fresh_jobs = <<>>
    /\ EndRun
    /\ UNCHANGED <<now, squelchDays, stateFile, db, file, runs, notified,
                   marked, markedAt>>
    /\ UNCHANGED deferred
    /\ UNCHANGED <<cafeVars, watcherVars, filterVars, recencyVars, callVars>>

\* send_email(subject, body) returns
SendEmailOk ==
    /\ pc = "send"
    /\ fresh_jobs # <<>>
    /\ notified' = notified \cup
           {[url |-> fresh_jobs[i].url,
             company |-> norm_company(fresh_jobs[i].company),
             at |-> now, run |-> runs] : i \in DOMAIN fresh_jobs}
    /\ pc' = "mark"
    /\ jobs' = <<>>
    /\ UNCHANGED <<now, squelchDays, stateFile, db, file, con, fresh_jobs,
                   seen, markNow, mi, mstmt, runs, marked, markedAt, markBatch>>
    /\ UNCHANGED deferred
    /\ UNCHANGED <<cafeVars, watcherVars, filterVars, recencyVars, callVars>>

\* send_email raises: main propagates, the process exits with status 1
SendEmailRaises ==
    /\ pc = "send"
    /\ fresh_jobs # <<>>
    /\ EndRun
    /\ UNCHANGED <<now, squelchDays, stateFile, db, file, runs, notified,
                   marked, markedAt>>
    /\ UNCHANGED deferred
    /\ UNCHANGED <<cafeVars, watcherVars, filterVars, recencyVars, callVars>>

\* seen.update(j.url for j in fresh_jobs); save_seen_file(seen)
MarkFile ==
    /\ pc = "mark"
    /\ stateFile # ""
    /\ file' = save_seen_file(stateFile, file, seen \cup Urls(fresh_jobs))
    /\ marked' = marked \cup Urls(fresh_jobs)
    /\ EndRun
    /\ UNCHANGED <<now, squelchDays, stateFile, db, runs, notified, markedAt>>
    /\ UNCHANGED deferred
    /\ UNCHANGED <<cafeVars, watcherVars, filterVars, recencyVars, callVars>>

\* db_mark_sent(con, fresh_jobs): now = datetime.utcnow().isoformat(...)
MarkBegin ==
    /\ pc = "mark"
    /\ stateFile = ""
    /\ markNow' = isoformat_seconds(now)
    /\ markBatch' = fresh_jobs
    /\ mi' = 1
    /\ mstmt' = 1
    /\ pc' = "marking"
    /\ UNCHANGED <<now, squelchDays, stateFile, db, file, con, jobs,
                   fresh_jobs, seen, runs, notified, marked, markedAt>>
    /\ UNCHANGED deferred
    /\ UNCHANGED <<cafeVars, watcherVars, filterVars, recencyVars, callVars>>

\* What the database file holds after con.execute of an INSERT: sqlite3
\* opens a transaction implicitly, the write stays pending in the connection.
AfterStatement(d, c) == d

\* what con.commit() makes durable: every pending write of the connection
Commit(d, c) == c

\* db_mark_sent: the INSERT OR IGNORE of the loop body
MarkInsertJob ==
    /\ pc = "marking"
    /\ mi <= Len(markBatch)
    /\ mstmt = 1
    /\ con' = InsertSentJob(con, markBatch[mi], markNow)
    /\ db' = AfterStatement(db, con')
    /\ IF MarkUpdatesCompany(markBatch[mi])
       THEN mstmt' = 2 /\ mi' = mi
       ELSE mstmt' = 1 /\ mi' = mi + 1
    /\ UNCHANGED <<now, squelchDays, stateFile, file, pc, jobs,
                   fresh_jobs, seen, markNow, runs, notified, marked, markedAt,
                   markBatch>>
    /\ UNCHANGED deferred
    /\ UNCHANGED <<cafeVars, watcherVars, filterVars, recencyVars, callVars>>

\* db_mark_sent: the sent_companies upsert of the loop body
MarkUpsertCompany ==
    /\ pc = "marking"
    /\ mi <= Len(markBatch)
    /\ mstmt = 2
    /\ con' = UpsertCompany(con, norm_company(markBatch[mi].company), markNow)
    /\ db' = AfterStatement(db, con')
    /\ mstmt' = 1
    /\ mi' = mi + 1
    /\ UNCHANGED <<now, squelchDays, stateFile, file, pc, jobs,
                   fresh_jobs, seen, markNow, runs, notified, marked, markedAt,
                   markBatch>>
    /\ UNCHANGED deferred
    /\ UNCHANGED <<cafeVars, watcherVars, filterVars, recencyVars, callVars>>

\* db_mark_sent: con.commit(), and main returns
MarkCommit ==
    /\ pc = "marking"
    /\ mi > Len(markBatch)
    /\ db' = Commit(db, con)
    /\ marked' = marked \cup Urls(markBatch)
    /\ markedAt' = LET cs == {norm_company(markBatch[i].company) :
                                 i \in DOMAIN markBatch} \ {""}
                   IN  {m \in markedAt : m.company \notin cs} \cup
                       {[company |-> c, at |-> now] : c \in cs}
    /\ EndRun
    /\ UNCHANGED <<now, squelchDays, stateFile, file, runs, notified>>
    /\ UNCHANGED deferred
    /\ UNCHANGED <<cafeVars, watcherVars, filterVars, recencyVars, callVars>>

\* The process dies, or a statement raises and main exits: the pending
\* transaction of the connection is rolled back.
Crash ==
    /\ pc \in {"send", "mark", "marking"}
    /\ EndRun
    /\ UNCHANGED <<now, squelchDays, stateFile, db, file, runs, notified,
                   marked, markedAt>>
    /\ UNCHANGED deferred
    /\ UNCHANGED <<cafeVars, watcherVars, filterVars, recencyVars, callVars>>

\* the clock moves on between two runs
Tick ==
    /\ pc = "idle"
    /\ \E t \in TimePoints : t > now /\ now' = t
    /\ UNCHANGED <<squelchDays, stateFile, db, file, con, pc, jobs,
                   fresh_jobs, seen, markNow, mi, mstmt, runs, notified,
                   marked, markedAt, markBatch>>
    /\ UNCHANGED deferred
    /\ UNCHANGED <<cafeVars, watcherVars, filterVars, recencyVars, callVars>>

BotInit(files) ==
    /\ now = 0
    /\ squelchDays \in SquelchChoices
    /\ stateFile \in files
    /\ db = EmptyDb
    /\ file = <<>>
    /\ con = NoCon
    /\ pc = "idle"
    /\ jobs = <<>>
    /\ fresh_jobs = <<>>
    /\ seen = {}
    /\ markNow = 0
    /\ mi = 0
    /\ mstmt = 0
    /\ runs = 0
    /\ notified = {}
    /\ marked = {}
    /\ markedAt = {}
    /\ markBatch = <<>>
    /\ deferred = {}

-----------------------------------------------------------------------------
(* hiring_cafe_job_watcher.py *)

SEARCH_KEYWORDS ==
    <<".NET Developer", "Full Stack .NET", "C# Developer", "Azure Developer">>

\* state.json: missing, a JSON array, or cut short by an interrupted write
NoFile == [kind |-> "missing"]
TornFile == [kind |-> "torn"]
JsonFile(l) == [kind |-> "json", list |-> l]

\* set(json.load(f)); a missing file and every Exception give set()
load_state(f) == IF f.kind = "json" THEN Range(f.list) ELSE {}

\* list(seen): the elements of the set in some order
ListsOf(S) == {l \in [1..Cardinality(S) -> S] : Range(l) = S}

\* ids the API may return, and what fetch_jobs_for_keyword returns for one
\* keyword ([] on every request error)
CafeIds == {"j1", "j2"}
CafeFeeds == {<<>>} \cup {<<i>> : i \in CafeIds}
FetchInputs == [DOMAIN SEARCH_KEYWORDS -> CafeFeeds]

\* the jobs main walks through: for keyword in SEARCH_KEYWORDS: for job in jobs
RECURSIVE FetchedJobs(_, _)
FetchedJobs(fetched, k) ==
    IF k > Len(SEARCH_KEYWORDS) THEN <<>>
    ELSE [i \in DOMAIN fetched[k] |->
             [id |-> fetched[k][i], searchKey |-> SEARCH_KEYWORDS[k]]]
         \o FetchedJobs(fetched, k + 1)

CafeEndRun ==
    /\ cpc' = "idle"
    /\ cseen' = {}
    /\ current_ids' = {}
    /\ all_new_jobs' = <<>>

\* seen = load_state(); the loops over keywords and jobs; if all_new_jobs
CafeRun ==
    /\ cpc = "idle"
    /\ cruns < MaxRuns
    /\ cruns' = cruns + 1
    /\ \E fetched \in FetchInputs :
          LET s == load_state(cafeFile)
              js == FetchedJobs(fetched, 1)
              fresh == SelectSeq(js, LAMBDA j : j.id \notin s)
          IN  IF fresh = <<>>
              THEN CafeEndRun /\ crejected' = {}
              ELSE /\ cpc' = "send"
                   /\ cseen' = s
                   /\ current_ids' = {js[i].id : i \in DOMAIN js}
                   /\ all_new_jobs' = fresh
                   /\ crejected' = {js[i].id : i \in {k \in DOMAIN js : js[k].id \in s}}
    /\ UNCHANGED <<cafeFile, cnotified>>
    /\ UNCHANGED <<botVars, watcherVars, filterVars, recencyVars, callVars>>

\* send_email(all_new_jobs) returns
CafeSendOk ==
    /\ cpc = "send"
    /\ cnotified' = cnotified \cup
          {[id |-> all_new_jobs[i].id, run |-> cruns] : i \in DOMAIN all_new_jobs}
    /\ cpc' = "mark"
    /\ UNCHANGED <<cafeFile, cseen, current_ids, all_new_jobs, cruns, crejected>>
    /\ UNCHANGED <<botVars, watcherVars, filterVars, recencyVars, callVars>>

\* send_email raises (SMTP error): nothing in main catches it
CafeSendRaises ==
    /\ cpc = "send"
    /\ CafeEndRun
    /\ crejected' = {}
    /\ UNCHANGED <<cafeFile, cruns, cnotified>>
    /\ UNCHANGED <<botVars, watcherVars, filterVars, recencyVars, callVars>>

\* seen |= current_ids; save_state(seen): open(STATE_FILE, "w") truncates
CafeSaveOpen ==
    /\ cpc = "mark"
    /\ cseen' = cseen \cup current_ids
    /\ cafeFile' = TornFile
    /\ cpc' = "dump"
    /\ UNCHANGED <<current_ids, all_new_jobs, cruns, cnotified, crejected>>
    /\ UNCHANGED <<botVars, watcherVars, filterVars, recencyVars, callVars>>

\* json.dump(list(seen), f) and the end of the with block
CafeSaveDump ==
    /\ cpc = "dump"
    /\ \E l \in ListsOf(cseen) : cafeFile' = JsonFile(l)
    /\ CafeEndRun
    /\ crejected' = {}
    /\ UNCHANGED <<cruns, cnotified>>
    /\ UNCHANGED <<botVars, watcherVars, filterVars, recencyVars, callVars>>

\* the process is killed after the check
CafeCrash ==
    /\ cpc \in {"send", "mark", "dump"}
    /\ CafeEndRun
    /\ crejected' = {}
    /\ UNCHANGED <<cafeFile, cruns, cnotified>>
    /\ UNCHANGED <<botVars, watcherVars, filterVars, recencyVars, callVars>>

CafeInit ==
    /\ cafeFile = NoFile
    /\ cpc = "idle"
    /\ cseen = {}
    /\ current_ids = {}
    /\ all_new_jobs = <<>>
    /\ cruns = 0
    /\ cnotified = {}
    /\ crejected = {}

-----------------------------------------------------------------------------
(* job_watcher.py: configuration and filters *)

\* load_conf(): the content of a complete config.yaml
Conf ==
    [keywords |-> [any |-> <<"python", "engineer">>, must_not |-> <<"clearance">>],
     filters |->
        [titles_must_not |-> <<"senior">>,
         titles_must_include |-> <<"engineer">>,
         titles_must_include_all |-> <<>>,
         exp_max_years |-> 5,
         exp_must_not_patterns |-> <<"phd required">>,
         locations_must_not |-> <<"india">>,
         locations_allow_any |-> <<"US", "remote">>],
     locations_prefer |-> <<"Remote", "Austin">>,
     companies |-> [greenhouse |-> <<"acme">>, lever |-> <<"globex">>,
                    ashby |-> <<"initech">>]]

\* a config.yaml whose keywords section has no "any" list
ConfNoAny == [Conf EXCEPT !.keywords = [must_not |-> <<"clearance">>]]

\* what load_conf may return
ConfInputs == {Conf, ConfNoAny}

normalize(t) == lower(OrStr(t, ""))

EndsWith(s, w) == Len(w) <= Len(s) /\ SubSeq(s, Len(s) - Len(w) + 1, Len(s)) = w

\* re.search(p, text, flags=re.I) for the patterns in use: a literal, or a
\* literal followed by the anchor $, which without re.M matches at the end of
\* the text or in front of a line break that ends the text
re_search(p, text) ==
    LET t == lower(text)
    IN  IF Len(p) >= 1 /\ CharAt(p, Len(p)) = "$"
        THEN LET q == lower(SubSeq(p, 1, Len(p) - 1))
             IN  \/ EndsWith(t, q)
                 \/ /\ EndsWith(t, "\n")
                    /\ EndsWith(SubSeq(t, 1, Len(t) - 1), q)
        ELSE Contains(lower(p), t)

_any_regex_match(patterns, text) ==
    \E i \in DOMAIN patterns : re_search(patterns[i], text)

_all_regex_match(patterns, text) ==
    \A i \in DOMAIN patterns : re_search(patterns[i], text)

matches_keywords_any_first(conf, title, desc) ==
    LET t == normalize(title) \o "\n" \o normalize(desc)
        any_pats == conf.keywords.any
        must_not == Get(conf.keywords, "must_not", <<>>)
    IN  IF \E i \in DOMAIN any_pats : re_search(any_pats[i], t) THEN TRUE
        ELSE ~ \E i \in DOMAIN must_not : re_search(must_not[i], t)

matches_keywords(conf, title, desc) ==
    LET t == normalize(title) \o "\n" \o normalize(desc)
        any_pats == conf.keywords.any
        must_not == Get(conf.keywords, "must_not", <<>>)
    IN  IF \E i \in DOMAIN must_not : re_search(must_not[i], t) THEN FALSE
        ELSE \E i \in DOMAIN any_pats : re_search(any_pats[i], t)

\* conf["keywords"]["any"] raises KeyError
matches_keywords_raises(conf) ==
    \/ "keywords" \notin DOMAIN conf
    \/ "any" \notin DOMAIN conf.keywords

title_includes_required(conf, title) ==
    LET t == OrStr(title, "")
        flt == Get(conf, "filters", EmptyDict)
        must_any == Get(flt, "titles_must_include", <<>>)
        must_all == Get(flt, "titles_must_include_all", <<>>)
    IN  IF ~ _any_regex_match(must_any, t) THEN FALSE
        ELSE IF must_all # <<>> /\ ~ _all_regex_match(must_all, t) THEN FALSE
        ELSE TRUE

title_includes(conf, title) ==
    LET t == OrStr(title, "")
        flt == Get(conf, "filters", EmptyDict)
        must_any == Get(flt, "titles_must_include", <<>>)
        must_all == Get(flt, "titles_must_include_all", <<>>)
    IN  IF must_any # <<>> /\ ~ _any_regex_match(must_any, t) THEN FALSE
        ELSE IF must_all # <<>> /\ ~ _all_regex_match(must_all, t) THEN FALSE
        ELSE TRUE

title_allowed(conf, title) ==
    LET t == lower(OrStr(title, ""))
        pats == Get(Get(conf, "filters", EmptyDict), "titles_must_not", <<>>)
    IN  ~ \E i \in DOMAIN pats : re_search(pats[i], t)

\* \w
IsWordChar(ch) == Len(ch) = 1 /\ Contains(ch, Digits \o Uppers \o "_" \o Lowers)

\* \b in front of index i of s
WordBoundaryAt(s, i) ==
    (i > 1 /\ i - 1 <= Len(s) /\ IsWordChar(CharAt(s, i - 1)))
        # (i >= 1 /\ i <= Len(s) /\ IsWordChar(CharAt(s, i)))

\* first index >= i that holds no white space: \s* with the line break
RECURSIVE WsEnd(_, _)
WsEnd(s, i) ==
    IF i <= Len(s) /\ CharAt(s, i) \in {" ", "\n"} THEN WsEnd(s, i + 1) ELSE i

StartsAt(s, i, w) == i + Len(w) - 1 <= Len(s) /\ SubSeq(s, i, i + Len(w) - 1) = w

\* (?:years?|yrs?)\b matches at index i of s
YearsWordAt(s, i) ==
    \E w \in {"years", "year", "yrs", "yr"} :
        StartsAt(s, i, w) /\ WordBoundaryAt(s, i + Len(w))

\* the lengths \d{1,2} can take at index i of s
DigitRun(s, i) ==
    {n \in 1..2 : i + n - 1 <= Len(s)
                  /\ \A k \in i..(i + n - 1) : IsDigit(CharAt(s, k))}

\* _exp_single: the numbers N of the matches of N [+|plus] year(s) at index i
ExpSingleAt(s, i) ==
    {int(SubSeq(s, i, i + n - 1)) : n \in
        {n \in DigitRun(s, i) :
            /\ WordBoundaryAt(s, i)
            /\ LET a == WsEnd(s, i + n)
                   b == IF StartsAt(s, a, "+") THEN a + 1
                        ELSE IF StartsAt(s, a, "plus") THEN a + 4
                        ELSE a
               IN  YearsWordAt(s, WsEnd(s, b))}}

\* _exp_range: max(int(a), int(b)) of the matches of a - b year(s) at index i
ExpRangeAt(s, i) ==
    UNION {
        LET d == WsEnd(s, i + n)
        IN  IF ~ (WordBoundaryAt(s, i) /\ StartsAt(s, d, "-")) THEN {}
            ELSE LET e == WsEnd(s, d + 1)
                 IN  {LET a == int(SubSeq(s, i, i + n - 1))
                          b == int(SubSeq(s, e, e + m - 1))
                      IN  IF a > b THEN a ELSE b :
                      m \in {m \in DigitRun(s, e) :
                                YearsWordAt(s, WsEnd(s, e + m))}}
        : n \in DigitRun(s, i)}

\* the largest year count mentioned in text, -1 for None
max_years_mentioned(text) ==
    LET s == lower(text)
        all == UNION {ExpRangeAt(s, i) \cup ExpSingleAt(s, i) : i \in 1..Len(s)}
    IN  IF text = "" \/ all = {} THEN -1
        ELSE CHOOSE v \in all : \A w \in all : w <= v

experience_allowed_lt(conf, title, desc) ==
    LET filt == Get(conf, "filters", EmptyDict)
        max_ok == Get(filt, "exp_max_years", 5)
        text == OrStr(title, "") \o "\n" \o OrStr(desc, "")
        pats == Get(filt, "exp_must_not_patterns", <<>>)
        mx == max_years_mentioned(text)
    IN  IF \E i \in DOMAIN pats : re_search(pats[i], text) THEN FALSE
        ELSE IF mx = -1 THEN TRUE
        ELSE mx < max_ok

experience_allowed(conf, title, desc) ==
    LET filt == Get(conf, "filters", EmptyDict)
        max_ok == Get(filt, "exp_max_years", 5)
        text == OrStr(title, "") \o "\n" \o OrStr(desc, "")
        pats == Get(filt, "exp_must_not_patterns", <<>>)
        mx == max_years_mentioned(text)
    IN  IF \E i \in DOMAIN pats : re_search(pats[i], text) THEN FALSE
        ELSE IF mx = -1 THEN TRUE
        ELSE mx <= max_ok

\* str.replace(old, new)
RECURSIVE replace(_, _, _)
replace(s, old, new) ==
    IF Len(s) < Len(old) THEN s
    ELSE IF SubSeq(s, 1, Len(old)) = old
    THEN new \o replace(SubSeq(s, Len(old) + 1, Len(s)), old, new)
    ELSE SubSeq(s, 1, 1) \o replace(SubSeq(s, 2, Len(s)), old, new)

_normalize_location_tokens(loc) ==
    IF loc = "" THEN ""
    ELSE LET l1 == replace(replace(replace(lower(loc),
                       "united states", "us"), "u.s.", "us"), "usa", "us")
         IN  replace(replace(l1, "remote (us)", "remote us"),
                     "us-remote", "remote us")

location_allowed(conf, location) ==
    LET loc == _normalize_location_tokens(lower(strip(OrStr(location, ""))))
        filt == Get(conf, "filters", EmptyDict)
        bad == Get(filt, "locations_must_not", <<>>)
        allow_any == Get(filt, "locations_allow_any", <<>>)
    IN  IF \E i \in DOMAIN bad : Contains(lower(bad[i]), loc) THEN FALSE
        ELSE IF allow_any = <<>> THEN TRUE
        ELSE \E i \in DOMAIN allow_any : Contains(lower(allow_any[i]), loc)

passes_all_filters(conf, job) ==
    LET title == job.title
        desc == job.desc
        location == Get(job, "location", "")
    IN  IF ~ title_allowed(conf, title) THEN FALSE
        ELSE IF ~ title_includes(conf, title) THEN FALSE
        ELSE IF ~ experience_allowed(conf, title, desc) THEN FALSE
        ELSE IF ~ location_allowed(conf, location) THEN FALSE
        ELSE matches_keywords(conf, title, desc)

\* passes_all_filters(conf, job) raises KeyError: job["title"] or job["desc"]
\* is missing, or the call of matches_keywords is reached and raises
passes_all_filters_raises(conf, job) ==
    \/ "title" \notin DOMAIN job
    \/ "desc" \notin DOMAIN job
    \/ /\ title_allowed(conf, job.title)
       /\ title_includes(conf, job.title)
       /\ experience_allowed(conf, job.title, job.desc)
       /\ location_allowed(conf, Get(job, "location", ""))
       /\ matches_keywords_raises(conf)

RECURSIVE ScoreFrom(_, _, _)
RECURSIVE ScoreFrom_rising(_, _, _)
ScoreFrom_rising(prefer, loc, i) ==
    IF i > Len(prefer) THEN 0
    ELSE (IF Contains(normalize(prefer[i]), loc) THEN 100 + (i - 1) ELSE 0)
         + ScoreFrom_rising(prefer, loc, i + 1)

ScoreFrom(prefer, loc, i) ==
    IF i > Len(prefer) THEN 0
    ELSE (IF Contains(normalize(prefer[i]), loc) THEN 100 - (i - 1) ELSE 0)
         + ScoreFrom(prefer, loc, i + 1)

preferred_location_score(conf, location) ==
    ScoreFrom(Get(conf, "locations_prefer", <<>>),
              normalize(OrStr(location, "")), 1)

\* the key of new_hits.sort in main
HitKey(conf, x) ==
    <<0 - preferred_location_score(conf, x.location), lower(x.title)>>

RECURSIVE InsertHit(_, _, _)
InsertHit(conf, sq, x) ==
    IF sq = <<>> THEN <<x>>
    ELSE IF KeyLess(HitKey(conf, x), HitKey(conf, Head(sq))) THEN <<x>> \o sq
    ELSE <<Head(sq)>> \o InsertHit(conf, Tail(sq), x)

\* list.sort is stable
RECURSIVE SortHits(_, _)
SortHits(conf, sq) ==
    IF sq = <<>> THEN <<>>
    ELSE InsertHit(conf, SortHits(conf, SubSeq(sq, 1, Len(sq) - 1)), sq[Len(sq)])

-----------------------------------------------------------------------------
(* job_watcher.py: main *)

\* the sources main polls, in its order: greenhouse boards, lever, ashby
RECURSIVE SourcesOf(_, _)
SourcesOf(kind, names) ==
    IF names = <<>> THEN <<>>
    ELSE <<kind \o ":" \o Head(names)>> \o SourcesOf(kind, Tail(names))

Sources(conf) ==
    SourcesOf("greenhouse", Get(conf.companies, "greenhouse", <<>>))
        \o SourcesOf("lever", Get(conf.companies, "lever", <<>>))
        \o SourcesOf("ashby", Get(conf.companies, "ashby", <<>>))

\* fetch_ashby requests one page after the other while it yields
Paged(source) == StartsAt(source, 1, "ashby:")

Posting(s, i, t, l, d) ==
    [source |-> s, id |-> i, title |-> t, location |-> l, desc |-> d,
     url |-> "https://jobs/" \o i]

\* what the boards may publish
Catalog ==
    {Posting("greenhouse:acme", "101", "Software Engineer", "Remote (US)",
             "2+ years of Python"),
     Posting("greenhouse:acme", "102", "Senior Software Engineer", "Austin",
             "8 years of Java"),
     Posting("lever:globex", "7", "Backend Engineer", "United States",
             "3-6 yrs"),
     Posting("ashby:initech", "31", "Data Engineer", "Remote",
             "Python, 1 year")}

\* the postings of one response: all a board has, or one page of it
FeedInputs(source) ==
    LET own == {p \in Catalog : p.source = source}
    IN  UNION {[1..n -> own] : n \in 0..MaxFound}

\* key = f"{j['source']}::{j['id']}"
KeyOf(j) == j.source \o "::" \o j.id

\* the state file: missing, or its lines
NoLines == [exists |-> FALSE, lines |-> <<>>]

\* None without STATE_FILE (written {} here), set() for a missing file,
\* else the stripped non-empty lines
load_state_ids(sf, f) ==
    IF sf = "" \/ ~ f.exists THEN {}
    ELSE {strip(f.lines[i]) : i \in {k \in DOMAIN f.lines : strip(f.lines[k]) # ""}}

\* write_text("\n".join(sorted(ids)))
save_state_ids(sf, f, ids) ==
    IF sf = "" THEN f ELSE [exists |-> TRUE, lines |-> sorted(ids)]

\* conn = ensure_db(): CREATE TABLE IF NOT EXISTS changes no row
ensure_db(d) == d

SeenRow(j, nowtxt) ==
    [source |-> j.source, external_id |-> j.id, url |-> j.url,
     first_seen_utc |-> nowtxt]

\* SELECT 1 FROM seen WHERE source=? AND external_id=?  ... fetchone()
SelectSeen(c, j) ==
    \E r \in c : r.source = j.source /\ r.external_id = j.id

\* INSERT INTO seen: (source, external_id) is the primary key
InsertSeen(c, j, nowtxt) == c \cup {SeenRow(j, nowtxt)}

\* what passes_all_filters does in consider, for every configuration and
\* posting in use
FilterOutcome ==
    [c \in ConfInputs |->
        [j \in Catalog |->
            IF passes_all_filters_raises(c, j) THEN "raises"
            ELSE IF passes_all_filters(c, j) THEN "True" ELSE "False"]]

\* the end of main, and of the process: pending writes are rolled back
WEndRun ==
    /\ wpc' = "idle"
    /\ wconn' = {}
    /\ wsrc' = 0
    /\ wfeed' = <<>>
    /\ state_ids' = {}
    /\ new_hits' = <<>>
    /\ wpage' = 1

\* the end of one "for ... in conf[companies]" body: the next source, or
\* the code behind the loops
NextSource ==
    /\ wfeed' = <<>>
    /\ wpage' = 1
    /\ IF wsrc < Len(Sources(wconf))
       THEN wsrc' = wsrc + 1 /\ wpc' = "fetch"
       ELSE wsrc' = wsrc /\ wpc' = "finish"

\* conf = load_conf(); conn = ensure_db(); state_ids = load_state_ids()
WStart ==
    /\ wpc = "idle"
    /\ wruns < MaxRuns
    /\ wruns' = wruns + 1
    /\ wDryRun' \in BOOLEAN
    /\ wconn' = ensure_db(wdb)
    /\ state_ids' = load_state_ids(wStateFile, wfile)
    /\ new_hits' = <<>>
    /\ wsrc' = 1
    /\ wfeed' = <<>>
    /\ wpc' = "fetch"
    /\ wPrev' = [db |-> wdb, file |-> wfile]
    /\ wOutcome' = "running"
    /\ wFailed' = FALSE
    /\ wAfter' = {}
    /\ wconf' \in ConfInputs
    /\ wpage' = 1
    /\ wConsidered' = {}
    /\ wRaised' = {}
    /\ UNCHANGED <<wStateFile, wdb, wfile, wEmailed, wMails>>
    /\ UNCHANGED <<botVars, cafeVars, filterVars,
                   recencyVars, callVars>>

\* "--test-email" in sys.argv: after load_conf and ensure_env main calls
\* send_email(conf, []) and returns; DRY_RUN is not consulted, the store is
\* not opened
WTestEmail ==
    /\ wpc = "idle"
    /\ wruns < MaxRuns
    /\ wruns' = wruns + 1
    /\ wDryRun' \in BOOLEAN
    /\ wconf' \in ConfInputs
    /\ wMails' = wMails + 1
    /\ wPrev' = [db |-> wdb, file |-> wfile]
    /\ wOutcome' = "test_sent"
    /\ wFailed' = FALSE
    /\ wAfter' = {}
    /\ wConsidered' = {}
    /\ wRaised' = {}
    /\ UNCHANGED <<wStateFile, wdb, wconn, wfile, wpc, wsrc, wfeed,
                   state_ids, new_hits, wEmailed, wpage>>
    /\ UNCHANGED <<botVars, cafeVars, filterVars,
                   recencyVars, callVars>>

\* load_conf raises (config.yaml is missing or is no YAML): nothing catches
\* it and the run ends
WLoadConfRaises ==
    /\ wpc = "idle"
    /\ wruns < MaxRuns
    /\ wruns' = wruns + 1
    /\ wPrev' = [db |-> wdb, file |-> wfile]
    /\ wOutcome' = "conf_raised"
    /\ wFailed' = FALSE
    /\ wAfter' = {}
    /\ wConsidered' = {}
    /\ wRaised' = {}
    /\ UNCHANGED <<wStateFile, wDryRun, wdb, wconn, wfile, wpc, wsrc, wfeed,
                   state_ids, new_hits, wEmailed, wMails, wconf, wpage>>
    /\ UNCHANGED <<botVars, cafeVars, filterVars,
                   recencyVars, callVars>>

\* load_state_ids raises (the state file cannot be read or decoded):
\* nothing catches it and the run ends
WLoadRaises ==
    /\ wpc = "idle"
    /\ wruns < MaxRuns
    /\ wStateFile # ""
    /\ wfile.exists
    /\ wruns' = wruns + 1
    /\ wOutcome' = "aborted"
    /\ wFailed' = TRUE
    /\ wAfter' = {}
    /\ wconf' \in ConfInputs
    /\ wConsidered' = {}
    /\ wRaised' = {}
    /\ UNCHANGED <<wStateFile, wDryRun, wdb, wconn, wfile, wpc, wsrc, wfeed,
                   state_ids, new_hits, wEmailed, wMails, wPrev, wpage>>
    /\ UNCHANGED <<botVars, cafeVars, filterVars,
                   recencyVars, callVars>>

\* for j in fetch_greenhouse(slug) / fetch_lever(handle) / fetch_ashby(org):
\* the request succeeds and the generator has these postings to yield; an
\* empty page ends fetch_ashby ("if not posts: break")
WFetch ==
    /\ wpc = "fetch"
    /\ LET source == Sources(wconf)[wsrc]
       IN  \E feed \in FeedInputs(source) :
              /\ (Paged(source) /\ wpage = MaxPages) => feed = <<>>
              /\ IF Paged(source) /\ feed = <<>>
                 THEN NextSource
                 ELSE /\ wfeed' = feed
                      /\ wpc' = "consider"
                      /\ UNCHANGED <<wsrc, wpage>>
    /\ UNCHANGED <<wStateFile, wDryRun, wdb, wconn, wfile, state_ids,
                   new_hits, wruns, wEmailed, wMails, wPrev, wOutcome, wFailed, wAfter,
                   wconf, wConsidered, wRaised>>
    /\ UNCHANGED <<botVars, cafeVars, filterVars,
                   recencyVars, callVars>>

\* the request raises: except Exception prints [warn] and the loop goes on
WFetchRaises ==
    /\ wpc = "fetch"
    /\ wRaised' = wRaised \cup {Sources(wconf)[wsrc]}
    /\ NextSource
    /\ UNCHANGED <<wStateFile, wDryRun, wdb, wconn, wfile, state_ids,
                   new_hits, wruns, wEmailed, wMails, wPrev, wOutcome, wFailed, wAfter,
                   wconf, wConsidered>>
    /\ UNCHANGED <<botVars, cafeVars, filterVars,
                   recencyVars, callVars>>

\* consider(j) for the next posting the fetcher yields, every statement
\* succeeding
WConsider ==
    /\ wpc = "consider"
    /\ wfeed # <<>>
    /\ LET j == Head(wfeed)
           key == KeyOf(j)
           hit == IF wStateFile # ""
                  THEN key \notin state_ids /\ FilterOutcome[wconf][j] = "True"
                  ELSE FilterOutcome[wconf][j] = "True" /\ ~ SelectSeen(wconn, j)
           written == hit /\ ~ wDryRun
       IN  /\ (wStateFile # "" /\ key \in state_ids)
                  \/ FilterOutcome[wconf][j] # "raises"
           /\ wConsidered' = wConsidered \cup {j}
           /\ new_hits' = IF hit THEN Append(new_hits, j) ELSE new_hits
           /\ state_ids' = IF written /\ wStateFile # ""
                           THEN state_ids \cup {key} ELSE state_ids
           /\ wconn' = IF written /\ wStateFile = ""
                       THEN InsertSeen(wconn, j, isoformat_seconds(now))
                       ELSE wconn
           \* conn.commit()
           /\ wdb' = IF written /\ wStateFile = "" THEN wconn' ELSE wdb
           /\ wAfter' = IF wFailed
                        THEN wAfter \cup {"classified"}
                                 \cup (IF wdb' # wdb THEN {"marked"} ELSE {})
                        ELSE wAfter
    /\ wfeed' = Tail(wfeed)
    /\ UNCHANGED <<wStateFile, wDryRun, wfile, wpc, wsrc, wruns, wEmailed, wMails,
                   wPrev, wOutcome, wFailed, wconf, wpage, wRaised>>
    /\ UNCHANGED <<botVars, cafeVars, filterVars,
                   recencyVars, callVars>>

\* consider(j) with a statement of the SQLite branch raising sqlite3.Error:
\* the SELECT, the INSERT (j is in new_hits by then) or the commit (the
\* row stays pending in conn). The except Exception of the source's loop
\* catches it, prints [warn] and the next source is polled.
WConsiderStoreRaises ==
    /\ wpc = "consider"
    /\ wfeed # <<>>
    /\ wStateFile = ""
    /\ LET j == Head(wfeed)
       IN  /\ FilterOutcome[wconf][j] = "True"
           /\ wConsidered' = wConsidered \cup {j}
           /\ \E stmt \in {"select", "insert", "commit"} :
                 /\ stmt # "select" => (~ SelectSeen(wconn, j) /\ ~ wDryRun)
                 /\ new_hits' = IF stmt = "select" THEN new_hits
                                ELSE Append(new_hits, j)
                 /\ wconn' = IF stmt = "commit"
                             THEN InsertSeen(wconn, j, isoformat_seconds(now))
                             ELSE wconn
    /\ wFailed' = TRUE
    /\ wAfter' = IF wFailed THEN wAfter \cup {"classified"} ELSE wAfter
    /\ NextSource
    /\ UNCHANGED <<wStateFile, wDryRun, wdb, wfile, state_ids, wruns,
                   wEmailed, wMails, wPrev, wOutcome, wconf, wRaised>>
    /\ UNCHANGED <<botVars, cafeVars, filterVars,
                   recencyVars, callVars>>

\* consider(j) with passes_all_filters raising KeyError: the except
\* Exception of the source's loop catches it, prints [warn] and the next
\* source is polled
WConsiderFilterRaises ==
    /\ wpc = "consider"
    /\ wfeed # <<>>
    /\ LET j == Head(wfeed)
       IN  /\ wStateFile # "" => KeyOf(j) \notin state_ids
           /\ FilterOutcome[wconf][j] = "raises"
           /\ wConsidered' = wConsidered \cup {j}
    /\ wAfter' = IF wFailed THEN wAfter \cup {"classified"} ELSE wAfter
    /\ NextSource
    /\ UNCHANGED <<wStateFile, wDryRun, wdb, wconn, wfile, state_ids,
                   new_hits, wruns, wEmailed, wMails, wPrev, wOutcome, wFailed, wconf,
                   wRaised>>
    /\ UNCHANGED <<botVars, cafeVars, filterVars,
                   recencyVars, callVars>>

\* the fetcher is exhausted
WSourceDone ==
    /\ wpc = "consider"
    /\ wfeed = <<>>
    /\ ~ Paged(Sources(wconf)[wsrc])
    /\ NextSource
    /\ UNCHANGED <<wStateFile, wDryRun, wdb, wconn, wfile, state_ids,
                   new_hits, wruns, wEmailed, wMails, wPrev, wOutcome, wFailed, wAfter,
                   wconf, wConsidered, wRaised>>
    /\ UNCHANGED <<botVars, cafeVars, filterVars,
                   recencyVars, callVars>>

\* fetch_ashby has yielded every posting of a page: page += 1 and the
\* next request
WNextPage ==
    /\ wpc = "consider"
    /\ wfeed = <<>>
    /\ Paged(Sources(wconf)[wsrc])
    /\ wpage < MaxPages
    /\ wpage' = wpage + 1
    /\ wpc' = "fetch"
    /\ UNCHANGED <<wStateFile, wDryRun, wdb, wconn, wfile, wsrc, wfeed,
                   state_ids, new_hits, wruns, wEmailed, wMails, wPrev, wOutcome,
                   wFailed, wAfter, wconf, wConsidered, wRaised>>
    /\ UNCHANGED <<botVars, cafeVars, filterVars,
                   recencyVars, callVars>>

\* new_hits.sort(...); the DRY_RUN branch; if new_hits: save_state_ids
WFinish_no_dry_branch ==
    /\ wpc = "finish"
    /\ IF new_hits = <<>>
       THEN /\ WEndRun
            /\ wOutcome' = "no_new"
            /\ UNCHANGED <<wfile, wAfter>>
       ELSE /\ new_hits' = SortHits(wconf, new_hits)
            /\ wfile' = save_state_ids(wStateFile, wfile, state_ids)
            /\ wpc' = "send"
            /\ wAfter' = IF wFailed /\ wfile' # wfile
                         THEN wAfter \cup {"marked"} ELSE wAfter
            /\ UNCHANGED <<wconn, wsrc, wfeed, state_ids, wOutcome, wpage>>
    /\ UNCHANGED <<wStateFile, wDryRun, wdb, wruns, wEmailed, wMails, wPrev,
                   wFailed, wconf, wConsidered, wRaised>>
    /\ UNCHANGED <<botVars, cafeVars, filterVars,
                   recencyVars, callVars>>

WFinish ==
    /\ wpc = "finish"
    /\ IF wDryRun \/ new_hits = <<>>
       THEN /\ WEndRun
            /\ wOutcome' = IF wDryRun THEN "dry" ELSE "no_new"
            /\ UNCHANGED <<wfile, wAfter>>
       ELSE /\ new_hits' = SortHits(wconf, new_hits)
            /\ wfile' = save_state_ids(wStateFile, wfile, state_ids)
            /\ wpc' = "send"
            /\ wAfter' = IF wFailed /\ wfile' # wfile
                         THEN wAfter \cup {"marked"} ELSE wAfter
            /\ UNCHANGED <<wconn, wsrc, wfeed, state_ids, wOutcome, wpage>>
    /\ UNCHANGED <<wStateFile, wDryRun, wdb, wruns, wEmailed, wMails, wPrev, wFailed,
                   wconf, wConsidered, wRaised>>
    /\ UNCHANGED <<botVars, cafeVars, filterVars,
                   recencyVars, callVars>>

\* send_email(conf, new_hits) returns
WSendOk ==
    /\ wpc = "send"
    /\ wEmailed' = wEmailed \cup {KeyOf(new_hits[i]) : i \in DOMAIN new_hits}
    /\ wMails' = wMails + 1
    /\ wOutcome' = "sent"
    /\ wAfter' = IF wFailed THEN wAfter \cup {"sent"} ELSE wAfter
    /\ WEndRun
    /\ UNCHANGED <<wStateFile, wDryRun, wdb, wfile, wruns, wPrev, wFailed,
                   wconf, wConsidered, wRaised>>
    /\ UNCHANGED <<botVars, cafeVars, filterVars,
                   recencyVars, callVars>>

\* send_email raises (SMTP error): nothing in main catches it
WSendRaises ==
    /\ wpc = "send"
    /\ wOutcome' = "send_raised"
    /\ WEndRun
    /\ UNCHANGED <<wStateFile, wDryRun, wdb, wfile, wruns, wEmailed, wMails, wPrev,
                   wFailed, wAfter, wconf, wConsidered, wRaised>>
    /\ UNCHANGED <<botVars, cafeVars, filterVars,
                   recencyVars, callVars>>

\* the process is killed
WCrash ==
    /\ wpc \in {"fetch", "consider", "finish", "send"}
    /\ wOutcome' = "crashed"
    /\ WEndRun
    /\ UNCHANGED <<wStateFile, wDryRun, wdb, wfile, wruns, wEmailed, wMails, wPrev,
                   wFailed, wAfter, wconf, wConsidered, wRaised>>
    /\ UNCHANGED <<botVars, cafeVars, filterVars,
                   recencyVars, callVars>>

WatcherInit(files) ==
    /\ wStateFile \in files
    /\ wDryRun = FALSE
    /\ wdb = {}
    /\ wconn = {}
    /\ wfile = NoLines
    /\ wpc = "idle"
    /\ wsrc = 0
    /\ wfeed = <<>>
    /\ state_ids = {}
    /\ new_hits = <<>>
    /\ wruns = 0
    /\ wEmailed = {}
    /\ wMails = 0
    /\ wPrev = [db |-> {}, file |-> NoLines]
    /\ wOutcome = "none"
    /\ wFailed = FALSE
    /\ wAfter = {}
    /\ wconf = Conf
    /\ wpage = 1
    /\ wConsidered = {}
    /\ wRaised = {}

-----------------------------------------------------------------------------
(* job_watcher.py: passes_all_filters on its own *)

\* str(n) for n >= 0
RECURSIVE str(_)
str(n) ==
    IF n < 10 THEN CharAt(Digits, n + 1)
    ELSE str(n \div 10) \o CharAt(Digits, (n % 10) + 1)

\* conf["keywords"]
KeywordsInputs ==
    {Conf.keywords,
     [any |-> <<>>, must_not |-> <<"clearance">>],
     [any |-> <<"python">>]}

\* conf["filters"]: every list given, lists empty, lists absent, patterns
\* with an anchor, another ceiling
FiltersInputs ==
    {Conf.filters,
     [titles_must_not |-> <<"senior">>, titles_must_include |-> <<>>,
      titles_must_include_all |-> <<"python">>,
      locations_must_not |-> <<"india">>, locations_allow_any |-> <<>>],
     [titles_must_not |-> <<"senior">>, locations_must_not |-> <<"india">>],
     [titles_must_include |-> <<"engineer$">>,
      titles_must_include_all |-> <<"engineer$">>],
     [exp_max_years |-> 9, exp_must_not_patterns |-> <<"phd required">>]}

\* what load_conf may return for the filters: every keywords section with
\* every filters section, or with none
FilterConfs ==
    {[keywords |-> k, filters |-> f] : k \in KeywordsInputs, f \in FiltersInputs}
        \cup {[keywords |-> k] : k \in KeywordsInputs}

\* the dicts handed to passes_all_filters: every key present, location
\* missing, title missing, desc missing
FilterJobs ==
    LET titles == {"Software Engineer", "Senior Software Engineer",
                   "Python Developer", "", None}
        descs == {"2+ years of Python", "Python. Clearance needed", None}
        locations == {"Remote (US)", "Remote, India", "", None}
    IN  {[title |-> t, desc |-> d, location |-> l] :
            t \in titles, d \in descs, l \in locations}
        \cup {[title |-> t, desc |-> d] : t \in titles, d \in descs}
        \cup {[desc |-> d, location |-> l] : d \in descs, l \in {"Remote (US)"}}
        \cup {[title |-> t, location |-> l] : t \in titles, l \in {"Remote (US)"}}

\* a year mention as a posting writes it: "N years", "N+ years", "N-M years"
YearMention(m) ==
    IF m.kind = "single" THEN str(m.a) \o " years"
    ELSE IF m.kind = "plus" THEN str(m.a) \o "+ years"
    ELSE str(m.a) \o "-" \o str(m.b) \o " years"

YearMentions ==
    {[kind |-> "single", a |-> a, b |-> 0] : a \in {3, 5, 9, 100}}
    \cup {[kind |-> "plus", a |-> a, b |-> 0] : a \in {5, 6}}
    \cup {[kind |-> "range", a |-> r[1], b |-> r[2]] :
              r \in {<<5, 9>>, <<2, 4>>, <<9, 5>>}}

\* descriptions are written from at most this many year mentions
MaxMentions == 2

RECURSIVE YearsText(_)
YearsText(ms) ==
    IF ms = <<>> THEN ""
    ELSE ", " \o YearMention(Head(ms)) \o YearsText(Tail(ms))

\* a description with the mentions ms and, for hard, a hard negative
YearsDesc(ms, hard) ==
    "Experience" \o YearsText(ms) \o (IF hard THEN ". PhD required" ELSE ".")

YearsMetas ==
    {[years |-> TRUE, mentions |-> ms, hard |-> h] :
        ms \in UNION {[1..n -> YearMentions] : n \in 0..MaxMentions},
        h \in BOOLEAN}

\* the filters sections with which a title without "python" passes the
\* title stages: ceiling 5, no ceiling given, ceiling 9
YearsFilters ==
    {f \in FiltersInputs : Get(f, "titles_must_include_all", <<>>) = <<>>}

\* fmeta of a job that was not written from year mentions
NoMeta == [years |-> FALSE, mentions |-> <<>>, hard |-> FALSE]

\* passes_all_filters(conf, job) and the stages it calls, as results
Classification(conf, job) ==
    IF "title" \notin DOMAIN job \/ "desc" \notin DOMAIN job
    THEN [done |-> TRUE, raises |-> TRUE, passes |-> FALSE,
          title_allowed |-> FALSE, title_includes |-> FALSE,
          experience_allowed |-> FALSE, location_allowed |-> FALSE,
          matches_keywords |-> FALSE]
    ELSE [done |-> TRUE,
          raises |-> passes_all_filters_raises(conf, job),
          passes |-> IF passes_all_filters_raises(conf, job) THEN FALSE
                     ELSE passes_all_filters(conf, job),
          title_allowed |-> title_allowed(conf, job.title),
          title_includes |-> title_includes(conf, job.title),
          experience_allowed |-> experience_allowed(conf, job.title, job.desc),
          location_allowed |->
              location_allowed(conf, Get(job, "location", "")),
          matches_keywords |->
              IF matches_keywords_raises(conf) THEN FALSE
              ELSE matches_keywords(conf, job.title, job.desc)]

\* nothing classified yet
NotRun ==
    [done |-> FALSE, raises |-> FALSE, passes |-> FALSE,
     title_allowed |-> FALSE, title_includes |-> FALSE,
     experience_allowed |-> FALSE, location_allowed |-> FALSE,
     matches_keywords |-> FALSE]

\* mutant: a stage reads its section with conf.setdefault("filters", {})
ArgsAfter_setdefault(conf, job) ==
    [conf |-> [k \in DOMAIN conf \cup {"filters"} |->
                  IF k \in DOMAIN conf THEN conf[k] ELSE EmptyDict],
     job |-> job]

\* conf and job after passes_all_filters(conf, job) has returned or raised:
\* the function and its stages read them with [], .get and iteration, and
\* bind the values to locals; nothing is assigned into either dict
ArgsAfter(conf, job) == [conf |-> conf, job |-> job]

\* passes_all_filters(fconf, fjob)
Classify ==
    /\ ~ fout.done
    /\ fout' = Classification(fconf, fjob)
    /\ fconf' = ArgsAfter(fconf, fjob).conf
    /\ fjob' = ArgsAfter(fconf, fjob).job
    /\ UNCHANGED <<fmeta, fagain>>
    /\ UNCHANGED <<botVars, cafeVars, watcherVars, recencyVars, callVars>>

\* passes_all_filters(fconf, fjob), called once more
ClassifyAgain ==
    /\ fout.done
    /\ ~ fagain.done
    /\ fagain' = Classification(fconf, fjob)
    /\ fconf' = ArgsAfter(fconf, fjob).conf
    /\ fjob' = ArgsAfter(fconf, fjob).job
    /\ UNCHANGED <<fmeta, fout>>
    /\ UNCHANGED <<botVars, cafeVars, watcherVars, recencyVars, callVars>>

\* a configuration and a posting: any of FilterConfs with any of
\* FilterJobs, or a description written from year mentions with the
\* configurations that differ in the experience stage
FilterInit ==
    /\ fout = NotRun
    /\ fagain = NotRun
    /\ \/ /\ fconf \in FilterConfs
          /\ fjob \in FilterJobs
          /\ fmeta = NoMeta
       \/ /\ fconf \in {[keywords |-> Conf.keywords, filters |-> f] :
                            f \in YearsFilters}
          /\ fmeta \in YearsMetas
          /\ fjob = [title |-> "Engineer", location |-> "",
                     desc |-> YearsDesc(fmeta.mentions, fmeta.hard)]

\* no classification in this behaviour
FilterIdle ==
    /\ fconf = Conf
    /\ fjob = [title |-> "", desc |-> "", location |-> ""]
    /\ fmeta = NoMeta
    /\ fout = NotRun
    /\ fagain = NotRun

-----------------------------------------------------------------------------
(* builtin_job_bot.py: looks_recent, sort_key and run_searches on their own *)

\* the posted text of a detail page, by what it says
PostedText(m) ==
    IF m.kind = "today" THEN "today"
    ELSE IF m.kind = "hours" THEN str(m.n) \o " hours ago"
    ELSE IF m.kind = "days"
    THEN str(m.n) \o (IF m.n = 1 THEN " day ago" ELSE " days ago")
    ELSE IF m.kind = "weeks"
    THEN str(m.n) \o (IF m.n = 1 THEN " week ago" ELSE " weeks ago")
    ELSE IF m.kind = "yesterday" THEN "Yesterday"
    ELSE IF m.kind = "last week" THEN "Last week"
    ELSE IF m.kind = "other" THEN "Reposted"
    ELSE IF m.kind = "none" THEN None
    ELSE ""

PostedInputs ==
    {[kind |-> k, n |-> 0] :
        k \in {"today", "yesterday", "last week", "other", "none", "empty"}}
    \cup {[kind |-> "hours", n |-> 5]}
    \cup {[kind |-> "days", n |-> n] : n \in {1, 3, 14, 15}}
    \cup {[kind |-> "weeks", n |-> n] : n \in {1, 2, 3}}

\* titles with their lower case
TitleInputs == {<<"Beta", "beta">>, <<"alpha", "alpha">>}

\* postings handed to one call of run_searches
MaxYield == 3        \* postings the fetchers yield in one run
MaxRanked == 2

RankInputs ==
    UNION {[1..n -> [meta : PostedInputs, title : TitleInputs]] :
              n \in 1..MaxRanked}

\* the four postings of the ranking example, latest first
RankExample ==
    <<[meta |-> [kind |-> "empty", n |-> 0], title |-> <<"Beta", "beta">>],
      [meta |-> [kind |-> "weeks", n |-> 2], title |-> <<"Beta", "beta">>],
      [meta |-> [kind |-> "days", n |-> 3], title |-> <<"Beta", "beta">>],
      [meta |-> [kind |-> "today", n |-> 0], title |-> <<"Beta", "beta">>]>>

\* values of POSTED_WITHIN_DAYS: the default and values set by the environment
ThresholdInputs == {-1, 0, 7, POSTED_WITHIN_DAYS}

RankUrl(i) == "https://builtin.com/job/" \o str(i)

\* element i of found with its detail page as run_searches gets them
DetailOf(found, i) ==
    [url |-> RankUrl(i), link |-> "", ok |-> TRUE,
     title |-> found[i].title[1], company |-> "Acme",
     posted |-> PostedText(found[i].meta)]

\* nothing called yet
NoneCalled ==
    [looked |-> FALSE, recent |-> <<>>, ranked |-> FALSE, keys |-> <<>>,
     jobs |-> <<>>]

\* looks_recent(posted) for every posting of rfound
LooksRecent ==
    /\ ~ rout.looked
    /\ rout' = [rout EXCEPT
                   !.looked = TRUE,
                   !.recent = [i \in DOMAIN rfound |->
                                 looks_recent(rdays, DetailOf(rfound, i).posted)]]
    /\ UNCHANGED <<rdays, rfound>>
    /\ UNCHANGED <<botVars, cafeVars, watcherVars, filterVars, callVars>>

\* sort_key(j) for every posting of rfound, and run_searches() finding them
RunSearches ==
    /\ ~ rout.ranked
    /\ rdays = POSTED_WITHIN_DAYS
    /\ rout' = [rout EXCEPT
                   !.ranked = TRUE,
                   !.keys = [i \in DOMAIN rfound |->
                               sort_key(HydrateOne(DetailOf(rfound, i)))],
                   !.jobs = run_searches(
                               [i \in DOMAIN rfound |-> DetailOf(rfound, i)])]
    /\ UNCHANGED <<rdays, rfound>>
    /\ UNCHANGED <<botVars, cafeVars, watcherVars, filterVars, callVars>>

RecencyInit ==
    /\ rdays \in ThresholdInputs
    /\ rfound \in RankInputs \cup {RankExample}
    /\ rout = NoneCalled

\* none of the three functions is called in this behaviour
RecencyIdle ==
    /\ rdays = POSTED_WITHIN_DAYS
    /\ rfound = <<>>
    /\ rout = NoneCalled

-----------------------------------------------------------------------------
(* job_watcher.py: preferred_location_score and the sort of new_hits on
   their own *)

\* conf for the sort: locations_prefer of three, of two and of no entries,
\* and absent
PreferConfs ==
    {[locations_prefer |-> <<"Remote", "Austin", "Texas">>],
     [locations_prefer |-> Conf.locations_prefer],
     [locations_prefer |-> <<>>],
     [keywords |-> Conf.keywords]}

\* the hits main has collected: title and location are what the sort reads
HitInputs ==
    {[title |-> t, location |-> l] :
        t \in {"Beta", "alpha"},
        l \in {"Remote", "Austin, Texas", "Berlin", ""}}

HitLists == UNION {[1..n -> HitInputs] : n \in 0..MaxRanked}

NotSorted == [done |-> FALSE, new_hits |-> <<>>]

\* new_hits.sort(key=lambda x: (-preferred_location_score(...), ...))
SortNewHits ==
    /\ ~ pout.done
    /\ pout' = [done |-> TRUE, new_hits |-> SortHits(pconf, phits)]
    /\ UNCHANGED <<pconf, phits>>
    /\ UNCHANGED <<botVars, cafeVars, watcherVars, filterVars, recencyVars,
                   modeVars>>

RankInit ==
    /\ pconf \in PreferConfs
    /\ phits \in HitLists
    /\ pout = NotSorted

\* the sort is not run on its own in this behaviour
RankIdle ==
    /\ pconf = Conf
    /\ phits = <<>>
    /\ pout = NotSorted

-----------------------------------------------------------------------------
(* job_watcher.py: consider() in STATE_FILE mode and in SQLite mode, run on
   the same configuration, prior identifiers and postings *)

ModeStateFile == "state_seen.txt"

\* the postings the fetchers yield in one run, in the order of the yields
YieldInputs == UNION {[1..n -> Catalog] : n \in 0..MaxYield}

\* an exception inside consider(j) leaves the for loop of j's source: the
\* rest of what that fetcher would have yielded is not looked at
RECURSIVE SkipSource(_, _)
SkipSource(feed, source) ==
    IF feed = <<>> \/ Head(feed).source # source THEN feed
    ELSE SkipSource(Tail(feed), source)

\* mutant: the key is added before the filters are asked
FileRecords_before_filter(conf, ids, j) == KeyOf(j) \notin ids

\* consider(j), file branch: whether state_ids.add(key) is reached
FileRecords(conf, ids, j) ==
    KeyOf(j) \notin ids /\ FilterOutcome[conf][j] = "True"

\* consider(j) with "if state_ids is not None", DRY_RUN unset
FileConsider ==
    /\ mfeedF # <<>>
    /\ LET j == Head(mfeedF)
       IN  IF KeyOf(j) \in mstate
           THEN /\ mfeedF' = Tail(mfeedF)
                /\ UNCHANGED <<mstate, mhitsF>>
           ELSE IF FilterOutcome[mconf][j] = "raises"
           THEN /\ mfeedF' = SkipSource(mfeedF, j.source)
                /\ UNCHANGED <<mstate, mhitsF>>
           ELSE /\ mfeedF' = Tail(mfeedF)
                /\ mhitsF' = IF FilterOutcome[mconf][j] = "True"
                             THEN Append(mhitsF, j) ELSE mhitsF
                /\ mstate' = IF FileRecords(mconf, mstate, j)
                             THEN mstate \cup {KeyOf(j)} ELSE mstate
    /\ UNCHANGED <<mconf, mprior, mfeedS, mfile, mrows, mhitsS, mdone>>
    /\ UNCHANGED <<botVars, cafeVars, watcherVars, filterVars, recencyVars,
                   rankVars>>

\* main behind the loops, DRY_RUN unset: if new_hits: save_state_ids(...)
FileFinish ==
    /\ mfeedF = <<>>
    /\ ~ mdone
    /\ mdone' = TRUE
    /\ mfile' = IF mhitsF # <<>>
                THEN save_state_ids(ModeStateFile, mfile, mstate) ELSE mfile
    /\ UNCHANGED <<mconf, mprior, mfeedF, mfeedS, mstate, mrows, mhitsF,
                   mhitsS>>
    /\ UNCHANGED <<botVars, cafeVars, watcherVars, filterVars, recencyVars,
                   rankVars>>

\* consider(j) in the SQLite branch, DRY_RUN unset: filters, SELECT,
\* new_hits.append, INSERT, commit
SqliteConsider ==
    /\ mfeedS # <<>>
    /\ LET j == Head(mfeedS)
       IN  IF FilterOutcome[mconf][j] = "raises"
           THEN /\ mfeedS' = SkipSource(mfeedS, j.source)
                /\ UNCHANGED <<mrows, mhitsS>>
           ELSE IF FilterOutcome[mconf][j] = "True" /\ ~ SelectSeen(mrows, j)
           THEN /\ mfeedS' = Tail(mfeedS)
                /\ mhitsS' = Append(mhitsS, j)
                /\ mrows' = InsertSeen(mrows, j, isoformat_seconds(now))
           ELSE /\ mfeedS' = Tail(mfeedS)
                /\ UNCHANGED <<mrows, mhitsS>>
    /\ UNCHANGED <<mconf, mprior, mfeedF, mstate, mfile, mhitsF, mdone>>
    /\ UNCHANGED <<botVars, cafeVars, watcherVars, filterVars, recencyVars,
                   rankVars>>

\* both runs start from the same identifiers: the state file holds their
\* keys (it is missing when there are none), table seen their rows
ModesInit ==
    /\ mconf \in ConfInputs
    /\ mprior \in SUBSET Catalog
    /\ \E feed \in YieldInputs : mfeedF = feed /\ mfeedS = feed
    /\ mfile = IF mprior = {} THEN NoLines
               ELSE save_state_ids(ModeStateFile, NoLines,
                                   {KeyOf(p) : p \in mprior})
    /\ mstate = load_state_ids(ModeStateFile, mfile)
    /\ mrows = {SeenRow(p, isoformat_seconds(0)) : p \in mprior}
    /\ mhitsF = <<>>
    /\ mhitsS = <<>>
    /\ mdone = FALSE

\* the two runs are not compared in this behaviour
ModesIdle ==
    /\ mconf = Conf
    /\ mprior = {}
    /\ mfeedF = <<>> /\ mfeedS = <<>>
    /\ mstate = {} /\ mfile = NoLines /\ mrows = {}
    /\ mhitsF = <<>> /\ mhitsS = <<>>
    /\ mdone = TRUE

CallsIdle == RankIdle /\ ModesIdle

-----------------------------------------------------------------------------
(* Specifications *)

vars == <<botVars, cafeVars, watcherVars, filterVars, recencyVars, callVars>>

InitBot ==
    BotInit({"", "state_builtin.txt"}) /\ CafeInit /\ WatcherInit({""})
        /\ FilterIdle /\ RecencyIdle /\ CallsIdle

NextBot ==
    \/ RunSqlite
    \/ RunFile
    \/ NothingNew
    \/ SendEmailOk
    \/ SendEmailRaises
    \/ MarkFile
    \/ MarkBegin
    \/ MarkInsertJob
    \/ MarkUpsertCompany
    \/ MarkCommit
    \/ Crash
    \/ Tick

SpecBot == InitBot /\ [][NextBot]_vars

InitStore ==
    BotInit({""}) /\ CafeInit /\ WatcherInit({""}) /\ FilterIdle /\ RecencyIdle /\ CallsIdle

NextStore ==
    \/ StoreCall
    \/ NothingNew
    \/ SendEmailOk
    \/ SendEmailRaises
    \/ MarkBegin
    \/ MarkInsertJob
    \/ MarkUpsertCompany
    \/ MarkCommit
    \/ Crash
    \/ Tick

SpecStore == InitStore /\ [][NextStore]_vars

\* The store after an earlier run has emailed and marked one posting of
\* Acme at instant 0: what db_mark_sent wrote for it
SeedJob == Job("Dev", "Acme", "", "u0")
SeededDb ==
    UpsertCompany(InsertSentJob(EmptyDb, SeedJob, isoformat_seconds(0)),
                  norm_company(SeedJob.company), isoformat_seconds(0))

InitDefer ==
    /\ now = 0
    /\ squelchDays \in SquelchChoices
    /\ stateFile = ""
    /\ db = SeededDb
    /\ file = <<>>
    /\ con = NoCon
    /\ pc = "idle"
    /\ jobs = <<>> /\ fresh_jobs = <<>> /\ seen = {}
    /\ markNow = 0 /\ mi = 0 /\ mstmt = 0
    /\ runs = 0
    /\ notified = {[url |-> SeedJob.url,
                    company |-> norm_company(SeedJob.company),
                    at |-> 0, run |-> 0]}
    /\ marked = {SeedJob.url}
    /\ markedAt = {[company |-> norm_company(SeedJob.company), at |-> 0]}
    /\ markBatch = <<>>
    /\ deferred = {}
    /\ CafeInit /\ WatcherInit({""}) /\ FilterIdle /\ RecencyIdle /\ CallsIdle

SpecDefer == InitDefer /\ [][NextStore]_vars

\* builtin_job_bot at rest
BotIdle == BotInit({""}) /\ squelchDays = SQUELCH_COMPANY_DAYS

InitCafe ==
    BotIdle /\ CafeInit /\ WatcherInit({""}) /\ FilterIdle /\ RecencyIdle /\ CallsIdle

NextCafe ==
    \/ CafeRun
    \/ CafeSendOk
    \/ CafeSendRaises
    \/ CafeSaveOpen
    \/ CafeSaveDump
    \/ CafeCrash

SpecCafe == InitCafe /\ [][NextCafe]_vars

InitWatcher ==
    BotIdle /\ CafeInit /\ WatcherInit({"", "state_seen.txt"}) /\ FilterIdle
        /\ RecencyIdle /\ CallsIdle

NextWatcher ==
    \/ WStart
    \/ WTestEmail
    \/ WLoadConfRaises
    \/ WLoadRaises
    \/ WFetch
    \/ WFetchRaises
    \/ WConsider
    \/ WConsiderStoreRaises
    \/ WConsiderFilterRaises
    \/ WSourceDone
    \/ WNextPage
    \/ WFinish
    \/ WSendOk
    \/ WSendRaises
    \/ WCrash

SpecWatcher == InitWatcher /\ [][NextWatcher]_vars

InitFilter ==
    BotIdle /\ CafeInit /\ WatcherInit({""}) /\ FilterInit /\ RecencyIdle
        /\ CallsIdle

NextFilter ==
    \/ Classify
    \/ ClassifyAgain

SpecFilter == InitFilter /\ [][NextFilter]_vars

InitRecency ==
    BotIdle /\ CafeInit /\ WatcherInit({""}) /\ FilterIdle /\ RecencyInit
        /\ CallsIdle

NextRecency ==
    \/ LooksRecent
    \/ RunSearches

SpecRecency == InitRecency /\ [][NextRecency]_vars

InitRank ==
    BotIdle /\ CafeInit /\ WatcherInit({""}) /\ FilterIdle /\ RecencyIdle
        /\ RankInit /\ ModesIdle

NextRank ==
    \/ SortNewHits

SpecRank == InitRank /\ [][NextRank]_vars

InitModes ==
    BotIdle /\ CafeInit /\ WatcherInit({""}) /\ FilterIdle /\ RecencyIdle
        /\ RankIdle /\ ModesInit

NextModes ==
    \/ FileConsider
    \/ FileFinish
    \/ SqliteConsider

SpecModes == InitModes /\ [][NextModes]_vars

-----------------------------------------------------------------------------
(* Claims about builtin_job_bot.py *)

InFresh(j) == \E k \in DOMAIN fresh_jobs : fresh_jobs[k] = j

Recorded(d, url) == \E r \in d.sent_jobs : r.url = url

HasCooldown(d, c) == \E r \in d.sent_companies : r.company_norm = c

\* last_sent_at of company c, as an instant
LastSentAt(d, c) ==
    fromisoformat((CHOOSE r \in d.sent_companies : r.company_norm = c)
                      .last_sent_at)

\* In state "send" the run has just taken its is-new decisions: jobs holds
\* the postings checked, fresh_jobs the accepted ones, and db, file, marked
\* and now are as they were at the check.

C2_OnePerCompanyPerWindow ==
    stateFile = "" =>
        \A n1, n2 \in notified :
            (n1 # n2 /\ n1.company = n2.company /\ n1.company # "")
            => \/ n1.at - n2.at >= timedelta_days(squelchDays)
               \/ n2.at - n1.at >= timedelta_days(squelchDays)

\* C3: a posting is never notified in two different runs, whatever step a
\* run stops at after its email was sent.
C3_NeverInTwoRuns ==
    \A n1, n2 \in notified : n1.url = n2.url => n1.run = n2.run

\* C5: filter_new_jobs_sqlite accepts a posting (url, normalized company c)
\* iff url was never recorded in sent_jobs and (c is empty and
\* ALLOW_UNKNOWN_COMPANY, or c has no sent_companies entry, or
\* now - last_sent_at(c) >= the cooldown window).
C5_IsNewIff ==
    (pc = "send" /\ stateFile = "") =>
        \A i \in DOMAIN jobs :
            LET c == norm_company(jobs[i].company)
            IN  InFresh(jobs[i]) <=>
                /\ ~ Recorded(db, jobs[i].url)
                /\ \/ c = "" /\ ALLOW_UNKNOWN_COMPANY
                   \/ ~ HasCooldown(db, c)
                   \/ now - LastSentAt(db, c) >= timedelta_days(squelchDays)

C5_Witness ==
    /\ pc = "send"
    /\ squelchDays = SQUELCH_COMPANY_DAYS
    /\ \E i \in DOMAIN jobs :
          LET c == norm_company(jobs[i].company)
          IN  /\ InFresh(jobs[i])
              /\ HasCooldown(db, c)
              /\ now - LastSentAt(db, c) = timedelta_days(squelchDays)
    /\ \E i \in DOMAIN jobs : ~ InFresh(jobs[i])

\* the postings B of the cooldown scenario: a company with a completed mark
\* at instant m.at, and a url that was never recorded
CooldownCase(i, m) ==
    /\ m.company = norm_company(jobs[i].company)
    /\ ~ Recorded(db, jobs[i].url)

\* C6 as stated: with a window of W = 30 days, after a posting of company C
\* was marked at instant T (and none of C since), another posting of C is
\* rejected at every instant before T + W and accepted from T + W on.
C6_CooldownFromMarkInstant ==
    (pc = "send" /\ squelchDays = SQUELCH_COMPANY_DAYS) =>
        \A i \in DOMAIN jobs : \A m \in markedAt :
            CooldownCase(i, m) =>
                (InFresh(jobs[i]) <=>
                    now >= m.at + timedelta_days(squelchDays))

\* C6 as amended: the window runs from the recorded last_sent_at, which is
\* T cut to whole seconds: the posting is rejected at every instant before
\* floor(T) + W and accepted from floor(T) + W on.
C6_CooldownFromRecordedSecond ==
    (pc = "send" /\ squelchDays = SQUELCH_COMPANY_DAYS) =>
        \A i \in DOMAIN jobs : \A m \in markedAt :
            CooldownCase(i, m) =>
                (InFresh(jobs[i]) <=>
                    now >= (m.at \div SubSec) * SubSec
                           + timedelta_days(squelchDays))

C6_Witness ==
    /\ pc = "send"
    /\ squelchDays = SQUELCH_COMPANY_DAYS
    /\ \E i \in DOMAIN jobs : \E m \in markedAt :
          /\ CooldownCase(i, m)
          /\ InFresh(jobs[i])
          /\ m.at % SubSec # 0
          /\ now = (m.at \div SubSec) * SubSec + timedelta_days(squelchDays)

\* C7: with ALLOW_UNKNOWN_COMPANY, a posting with an empty company string
\* whose url was never recorded is accepted whatever was notified before,
\* for every window and instant, and marking never leaves a cooldown entry
\* for the empty company.
C7_UnknownNeverSquelched ==
    /\ \A r \in db.sent_companies : r.company_norm # ""
    /\ (pc = "send" /\ stateFile = "") =>
          \A i \in DOMAIN jobs :
              (jobs[i].company = "" /\ ~ Recorded(db, jobs[i].url))
              => InFresh(jobs[i])

C7_Witness ==
    /\ pc = "send"
    /\ squelchDays = SQUELCH_COMPANY_DAYS
    /\ \E i \in DOMAIN jobs :
          /\ jobs[i].company = ""
          /\ InFresh(jobs[i])
          /\ \E r \in db.sent_jobs :
                r.company_norm = "" /\ r.url # jobs[i].url

\* the rows db_mark_sent writes for posting j are in store d
BatchRowsIn(d, j) ==
    /\ Recorded(d, j.url)
    /\ norm_company(j.company) # "" =>
          \E r \in d.sent_companies :
              /\ r.company_norm = norm_company(j.company)
              /\ r.last_sent_at = markNow

\* db_mark_sent is one transaction: the persisted store changes only in one
\* step that adds every sent_jobs record and every cooldown update of the
\* batch, and it never holds a posting of a known company without a cooldown
\* entry of that company at least as recent.
MarkIsOneTransaction ==
    /\ [][db' # db => \A i \in DOMAIN markBatch : BatchRowsIn(db', markBatch[i])]_vars
    /\ [](\A r \in db.sent_jobs :
             r.company_norm # "" =>
                 \E e \in db.sent_companies :
                     /\ e.company_norm = r.company_norm
                     /\ e.last_sent_at >= r.sent_at)

\* C8: db_mark_sent applies one batch atomically (all of its records and
\* cooldown updates or none, never a record without its cooldown), and a
\* run that stops during the batch never leaves a notified posting of the
\* batch absent from sent_jobs.
C8_MarkAtomicNotifiedRecorded ==
    /\ MarkIsOneTransaction
    /\ [][(pc = "marking" /\ pc' = "idle") =>
             \A i \in DOMAIN markBatch : Recorded(db', markBatch[i].url)]_vars

\* the sentinels hydrate_from_detail writes for a missing company, title
UnknownCompany == "(Unknown company)"
NoTitle == "(No title)"

\* C22: the sentinels are for presentation only. A posting handed to the
\* dedupe check and to the mark step carries neither sentinel (a company
\* that could not be extracted is the empty string there), so a posting
\* with no company whose URL is not recorded is always accepted, and no
\* cooldown entry exists under the normalized sentinel.
C22_SentinelsOnlyAtPresentation ==
    /\ pc = "send" =>
          \A i \in DOMAIN jobs :
              /\ jobs[i].company # UnknownCompany /\ jobs[i].title # NoTitle
              /\ (norm_company(jobs[i].company) \in {"", norm_company(UnknownCompany)}
                     /\ stateFile = "" /\ ~ Recorded(db, jobs[i].url))
                   => InFresh(jobs[i])
    /\ ~ HasCooldown(db, norm_company(UnknownCompany))

\* the lines are distinct and in ascending order
OnePerLineSorted(lines) ==
    \A i, k \in DOMAIN lines : i < k => StrLess(lines[i], lines[k])

C24_RecordInsertOnce ==
    [][/\ db.sent_jobs \subseteq db'.sent_jobs
       /\ (pc = "marking" /\ pc' = "marking")
             => con.sent_jobs \subseteq con'.sent_jobs
       /\ \A r, q \in db'.sent_jobs : r.url = q.url => r = q]_vars

\* db_mark_sent has run both INSERTs of a batch that holds one URL twice,
\* with two companies: the row is the one of the first posting
C24_Witness ==
    /\ pc = "marking" /\ Len(markBatch) = 2 /\ mi > 2
    /\ markBatch[1].url = markBatch[2].url
    /\ markBatch[1].company # markBatch[2].company
    /\ \E r \in con.sent_jobs :
          /\ r.url = markBatch[1].url
          /\ r.company_raw = markBatch[1].company

\* C28: a posting rejected by the company cooldown alone is deferred. The
\* rejecting run writes nothing to the store; as long as no mark has
\* completed for the posting's URL the company's cooldown row is there,
\* and a run that fetches the posting at or after last_sent_at + the
\* window accepts it; every accepted posting is in the email when
\* send_email returns.
C28_SquelchedIsDeferred ==
    /\ [](pc = "send" =>
            \A i \in DOMAIN jobs :
                (jobs[i] \in deferred /\ jobs[i].url \notin marked) =>
                    LET c == norm_company(jobs[i].company)
                    IN  /\ HasCooldown(db, c)
                        /\ now >= LastSentAt(db, c)
                                      + timedelta_days(squelchDays)
                             => InFresh(jobs[i]))
    /\ [][/\ deferred' # deferred => (db' = db /\ con' \in {db, NoCon})
          /\ (pc = "send" /\ pc' = "mark") =>
                \A i \in DOMAIN fresh_jobs :
                    \E n \in notified' :
                        n.url = fresh_jobs[i].url /\ n.run = runs]_vars

\* a posting that an earlier run rejected by cooldown has been accepted
\* and emailed by this run
C28_Witness ==
    /\ pc = "mark"
    /\ \E i \in DOMAIN fresh_jobs :
          /\ fresh_jobs[i] \in deferred
          /\ \E n \in notified : n.url = fresh_jobs[i].url /\ n.run = runs

\* what the flat-file backend accepts of js when its state file holds
\* the urls S: [j for j in jobs if j.url not in seen]
FileBackendAccepts(js, S) ==
    LET f == "state_builtin.txt"
        seen0 == load_seen_file(f, save_seen_file(f, <<>>, S))
    IN  SelectSeq(js, LAMBDA j : j.url \notin seen0)

\* C30: with SQUELCH_COMPANY_DAYS = 0 (the clock of the model never goes
\* back) the SQLite backend accepts, in every run, exactly the postings
\* whose URL has no completed mark: fresh_jobs is the list the flat-file
\* backend computes from a state file holding the marked URLs.
C30_ZeroWindowEqualsFileBackend ==
    (pc = "send" /\ stateFile = "" /\ squelchDays = 0) =>
        /\ \A i \in DOMAIN jobs :
              InFresh(jobs[i]) <=> jobs[i].url \notin marked
        /\ fresh_jobs = FileBackendAccepts(jobs, marked)

\* a later run at the very instant of the mark: a posting of the company
\* just marked is accepted, the marked URL is rejected
C30_Witness ==
    /\ pc = "send" /\ stateFile = "" /\ squelchDays = 0
    /\ \E i \in DOMAIN jobs :
          LET c == norm_company(jobs[i].company)
          IN  /\ InFresh(jobs[i])
              /\ HasCooldown(db, c)
              /\ now = LastSentAt(db, c)
    /\ \E i \in DOMAIN jobs : jobs[i].url \in marked

-----------------------------------------------------------------------------
(* Claims about job_watcher.py and hiring_cafe_job_watcher.py *)

\* C4: when send_email raises, the persisted dedupe state (table seen, the
\* state file) equals its state before the run, so no posting stays
\* recorded without having been emailed.
C4_SendFailureLeavesStoreUntouched ==
    wOutcome = "send_raised" => (wdb = wPrev.db /\ wfile = wPrev.file)

\* C9: the identifier set a run passes to save_state holds no identifier
\* that this run's is-new test rejected.
C9_MarkOnlyAccepted ==
    cpc = "dump" => cseen \cap crejected = {}

\* C10: after a statement on the dedupe store has failed in a run, that run
\* classifies no further posting, marks nothing and sends no notification.
C10_StoreFailureFatal ==
    wAfter = {}

\* C11: when the configuration lacks a required key (here the keywords.any
\* list), the run aborts before any posting is classified: consider() is
\* called with no posting, nothing is marked and no email is sent.
C11_ConfigErrorFatalBeforeClassification ==
    matches_keywords_raises(wconf) =>
        /\ wConsidered = {}
        /\ wdb = wPrev.db /\ wfile = wPrev.file
        /\ wOutcome # "sent"

\* C12: a source whose fetcher raised (at the first request or on a later
\* page) contributes no posting to the run: none of its postings is
\* classified, and none is in new_hits to be marked or notified.
C12_FetchErrorIsolatesSource ==
    /\ \A j \in wConsidered : j.source \notin wRaised
    /\ \A i \in DOMAIN new_hits : new_hits[i].source \notin wRaised

\* a step of a run started with --dry-run and without --test-email
DryStep == wDryRun' /\ ~ (wOutcome' = "test_sent" /\ wruns' # wruns)

C27_BatchHasNoDuplicates ==
    cpc = "send" =>
        \A i, k \in DOMAIN all_new_jobs :
            i # k => all_new_jobs[i].id # all_new_jobs[k].id

-----------------------------------------------------------------------------
(* Claims about passes_all_filters *)

\* fjob has the keys passes_all_filters indexes, and the call is over
Classified ==
    fout.done /\ "title" \in DOMAIN fjob /\ "desc" \in DOMAIN fjob

\* the lists of fconf, [] when absent
FilterList(key) == Get(Get(fconf, "filters", EmptyDict), key, <<>>)

\* the title of fjob matches a titles_must_not pattern
TitleMustNot ==
    \E i \in DOMAIN FilterList("titles_must_not") :
        re_search(FilterList("titles_must_not")[i], OrStr(fjob.title, ""))

\* the normalized location of fjob contains a locations_must_not token
LocationMustNot ==
    LET loc == _normalize_location_tokens(
                   lower(strip(OrStr(Get(fjob, "location", ""), ""))))
    IN  \E i \in DOMAIN FilterList("locations_must_not") :
            Contains(lower(FilterList("locations_must_not")[i]), loc)

\* title + description of fjob
CombinedText == OrStr(fjob.title, "") \o "\n" \o OrStr(fjob.desc, "")

\* title + description of fjob match a keywords.must_not pattern
KeywordMustNot ==
    LET must_not == Get(fconf.keywords, "must_not", <<>>)
    IN  \E i \in DOMAIN must_not : re_search(must_not[i], CombinedText)

C14_MustNotOverrides ==
    (Classified /\ (TitleMustNot \/ LocationMustNot \/ KeywordMustNot))
        => ~ fout.passes

\* a posting that every stage in front of the keyword stage lets through and
\* that matches an "any" pattern is rejected for its must_not keyword
C14_Witness ==
    /\ Classified
    /\ KeywordMustNot /\ ~ TitleMustNot /\ ~ LocationMustNot
    /\ fout.title_allowed /\ fout.title_includes
    /\ fout.experience_allowed /\ fout.location_allowed
    /\ \E i \in DOMAIN fconf.keywords.any :
           re_search(fconf.keywords.any[i], CombinedText)
    /\ ~ fout.passes

\* C15: when keywords.any is empty and no keywords.must_not pattern
\* matches, matches_keywords accepts the posting.
C15_EmptyAnyAccepts ==
    (Classified /\ fconf.keywords.any = <<>> /\ ~ KeywordMustNot)
        => fout.matches_keywords

\* C16 as stated: with titles_must_include empty the title stage accepts
\* every title that matches no titles_must_not pattern, and with
\* locations_allow_any empty or absent the location stage accepts every
\* location that contains no locations_must_not token.
C16_EmptyIncludeNeverRejects ==
    Classified =>
        /\ (FilterList("titles_must_include") = <<>> /\ ~ TitleMustNot)
               => (fout.title_allowed /\ fout.title_includes)
        /\ (FilterList("locations_allow_any") = <<>> /\ ~ LocationMustNot)
               => fout.location_allowed

\* C16 amended: the same, for the title stage when titles_must_include_all
\* is empty or absent as well.
C16_EmptyIncludeListsNeverReject ==
    Classified =>
        /\ (/\ FilterList("titles_must_include") = <<>>
            /\ FilterList("titles_must_include_all") = <<>>
            /\ ~ TitleMustNot)
               => (fout.title_allowed /\ fout.title_includes)
        /\ (FilterList("locations_allow_any") = <<>> /\ ~ LocationMustNot)
               => fout.location_allowed

\* a title and a location accepted with every include list absent, where a
\* configured include list would have rejected them
C16_Witness ==
    /\ Classified
    /\ "filters" \in DOMAIN fconf
    /\ DOMAIN fconf.filters = {"titles_must_not", "locations_must_not"}
    /\ fjob.title = "Python Developer"
    /\ Get(fjob, "location", "") = ""
    /\ ~ title_includes(Conf, fjob.title)
    /\ ~ location_allowed(Conf, "")
    /\ fout.title_allowed /\ fout.title_includes /\ fout.location_allowed

\* the year count of one mention: the larger bound of a range
MentionValue(m) ==
    IF m.kind = "range" /\ m.b > m.a THEN m.b ELSE m.a

\* a hard-negative pattern of fconf is in the text of fjob
HardNegative ==
    fmeta.hard /\ "phd required" \in Range(FilterList("exp_must_not_patterns"))

\* exp_max_years
Ceiling == Get(Get(fconf, "filters", EmptyDict), "exp_max_years", 5)

\* C17 as stated: experience_allowed rejects iff a hard-negative pattern
\* matches or the largest year count over all the single and range mentions
\* of the text is greater than exp_max_years.
C17_ExperienceIff ==
    (fout.done /\ fmeta.years) =>
        (~ fout.experience_allowed
            <=> \/ HardNegative
                \/ \E i \in DOMAIN fmeta.mentions :
                       MentionValue(fmeta.mentions[i]) > Ceiling)

\* C17 amended: the same, the mentions being those whose numbers have one or
\* two digits; a number of three digits or more is no year mention.
C17_ExperienceIffTwoDigits ==
    (fout.done /\ fmeta.years) =>
        (~ fout.experience_allowed
            <=> \/ HardNegative
                \/ \E i \in DOMAIN fmeta.mentions :
                       /\ fmeta.mentions[i].a < 100
                       /\ fmeta.mentions[i].b < 100
                       /\ MentionValue(fmeta.mentions[i]) > Ceiling)

\* "5 years" and "2-4 years" under the ceiling 5: the largest count equals
\* the ceiling and the text is accepted
C17_Witness ==
    /\ fout.done /\ fmeta.years /\ ~ fmeta.hard /\ Ceiling = 5
    /\ fmeta.mentions = <<[kind |-> "single", a |-> 5, b |-> 0],
                          [kind |-> "range", a |-> 2, b |-> 4]>>
    /\ fout.experience_allowed

\* C20: passes_all_filters rejects every posting whose title + description
\* fails to match a configured must-all pattern, and, with a non-empty
\* must-any list, every posting whose title + description matches none of
\* its patterns.
C20_TechStackGate ==
    Classified =>
        /\ ~ _all_regex_match(FilterList("titles_must_include_all"),
                              CombinedText) => ~ fout.passes
        /\ (/\ FilterList("titles_must_include") # <<>>
            /\ ~ _any_regex_match(FilterList("titles_must_include"),
                                  CombinedText)) => ~ fout.passes

-----------------------------------------------------------------------------
(* Claims about looks_recent, sort_key and run_searches *)

\* the day count a posted text parses to: today or hours 0, N days N,
\* N weeks 7N; -1 for an empty or unparseable text
ParsedDays(m) ==
    IF m.kind \in {"today", "hours"} THEN 0
    ELSE IF m.kind = "days" THEN m.n
    ELSE IF m.kind = "weeks" THEN 7 * m.n
    ELSE -1

SpecifiedScore(m) == IF ParsedDays(m) = -1 THEN 999 ELSE ParsedDays(m)

\* the same, a text that says "day" or "week" without a number in front
\* counting as 3 days or as one week
FallbackScore(m) ==
    IF m.kind = "yesterday" THEN 3
    ELSE IF m.kind = "last week" THEN 7
    ELSE SpecifiedScore(m)

\* the posting of rfound that run_searches returned as j
FoundAs(j) == CHOOSE i \in DOMAIN rfound : RankUrl(i) = j.url

\* rout.jobs ascends by (Score, lower-case title)
RankedBy(Score(_)) ==
    \A a, b \in DOMAIN rout.jobs :
        a < b =>
            LET x == rfound[FoundAs(rout.jobs[a])]
                y == rfound[FoundAs(rout.jobs[b])]
            IN  \/ Score(x.meta) < Score(y.meta)
                \/ /\ Score(x.meta) = Score(y.meta)
                   /\ ~ StrLess(y.title[2], x.title[2])

\* C19 as stated: sort_key scores 0 for today or hour, N for N days, 7N for
\* N weeks and 999 for every other text, and run_searches returns the
\* postings in ascending order of (score, lower-case title).
C19_RankerScores ==
    rout.ranked =>
        /\ \A i \in DOMAIN rfound :
               rout.keys[i] = <<SpecifiedScore(rfound[i].meta), rfound[i].title[2]>>
        /\ RankedBy(SpecifiedScore)

\* C19 amended: the same, with the score 3 for a text that says "day" and 7
\* for a text that says "week" when no number stands in front of the word.
C19_RankerScoresWithFallback ==
    rout.ranked =>
        /\ \A i \in DOMAIN rfound :
               rout.keys[i] = <<FallbackScore(rfound[i].meta), rfound[i].title[2]>>
        /\ RankedBy(FallbackScore)

\* the example: "", "2 weeks ago", "3 days ago", "today" come back as
\* "today", "3 days ago", "2 weeks ago", "" with the scores 0, 3, 14, 999
C19_Witness ==
    /\ rout.ranked
    /\ rfound = RankExample
    /\ [i \in 1..4 |-> rout.jobs[i].posted]
           = <<"today", "3 days ago", "2 weeks ago", "">>
    /\ [i \in 1..4 |-> rout.keys[5 - i][1]] = <<0, 3, 14, 999>>

-----------------------------------------------------------------------------
(* Claims about preferred_location_score and the sort of new_hits *)

\* the positions of locations_prefer whose entry the location contains
PreferMatches(conf, location) ==
    LET prefer == Get(conf, "locations_prefer", <<>>)
    IN  {i \in DOMAIN prefer :
            Contains(normalize(prefer[i]), normalize(location))}

\* sq is in descending order of preference score, ties in ascending order
\* of the lower-case title, and holds the elements of new_hits
OrderedByPreference(conf, sq, hits) ==
    /\ Len(sq) = Len(hits)
    /\ \A h \in Range(hits) :
          Cardinality({i \in DOMAIN sq : sq[i] = h})
              = Cardinality({i \in DOMAIN hits : hits[i] = h})
    /\ \A i, k \in DOMAIN sq :
          i < k =>
            LET si == preferred_location_score(conf, sq[i].location)
                sk == preferred_location_score(conf, sq[k].location)
            IN  \/ si > sk
                \/ si = sk /\ ~ StrLess(lower(sq[k].title), lower(sq[i].title))

\* C25 as stated: a location that matches some entry of locations_prefer
\* scores strictly higher than every location whose matches all come later
\* in the list, and the sorted list is in descending order of the score
\* with the lower-case title as tie-break.
C25_EarlierEntryScoresHigher ==
    pout.done =>
        /\ \A a, b \in Range(phits) :
              (\E i \in PreferMatches(pconf, a.location) :
                   \A k \in PreferMatches(pconf, b.location) : i < k)
                => preferred_location_score(pconf, a.location)
                       > preferred_location_score(pconf, b.location)
        /\ OrderedByPreference(pconf, pout.new_hits, phits)

\* C25, amended: a location that matches some entry of locations_prefer
\* scores strictly higher than every location that matches at most one
\* entry, a later one; the sorted list is in descending order of the score
\* with the lower-case title as tie-break.
C25_EarlierEntryBeatsOneLaterEntry ==
    pout.done =>
        /\ \A a, b \in Range(phits) :
              (/\ Cardinality(PreferMatches(pconf, b.location)) <= 1
               /\ \E i \in PreferMatches(pconf, a.location) :
                     \A k \in PreferMatches(pconf, b.location) : i < k)
                => preferred_location_score(pconf, a.location)
                       > preferred_location_score(pconf, b.location)
        /\ OrderedByPreference(pconf, pout.new_hits, phits)

\* "Austin, Texas" matches the second and third entry and is sorted in
\* front of "Remote", which matches the first; a hit matching one later
\* entry would go behind
C25_Witness ==
    /\ pout.done
    /\ Len(Get(pconf, "locations_prefer", <<>>)) = 3
    /\ phits = <<[title |-> "alpha", location |-> "Remote"],
                 [title |-> "Beta", location |-> "Austin, Texas"]>>
    /\ pout.new_hits = <<phits[2], phits[1]>>

-----------------------------------------------------------------------------
(* Claims about the two dedupe modes of job_watcher.py *)

\* the (source, id) identifiers in table seen, written as keys
RowKeys(rows) == {r.source \o "::" \o r.external_id : r \in rows}

\* C29: when both runs are over, new_hits of the STATE_FILE run and of the
\* SQLite run are the same list, the state file and table seen hold the
\* same identifiers, and every identifier recorded by either run belongs
\* to a posting that passed the filters.
C29_ModesInterchangeable ==
    (mdone /\ mfeedS = <<>>) =>
        /\ mhitsF = mhitsS
        /\ load_state_ids(ModeStateFile, mfile) = RowKeys(mrows)
        /\ \A p \in Catalog :
              (KeyOf(p) \in RowKeys(mrows) \cup
                                load_state_ids(ModeStateFile, mfile)
                  /\ p \notin mprior)
                => passes_all_filters(mconf, p)

\* with 101 seen before, both runs were handed 101, 31 and 31 again and
\* both have the one new hit and the two identifiers
C29_Witness ==
    /\ mdone /\ mfeedS = <<>> /\ mfeedF = <<>>
    /\ Cardinality(mprior) = 1
    /\ Len(mhitsS) = 1 /\ mhitsS[1] \notin mprior
    /\ Cardinality(RowKeys(mrows)) = 2
    /\ Cardinality(load_state_ids(ModeStateFile, mfile)) = 2

====
